---------------------------- MODULE Spec2Model ----------------------------
(***************************************************************************)
(* A model of the streaming JSON token pipeline of msft-todo-backup:       *)
(* the token model, StackKeyTracker, FullAssembler, InflationStream        *)
(* (pushMany), packEntry, omitEntry, injectEntry and objectSieve.          *)
(*                                                                         *)
(* Strings are sequences of one-character strings, so that chunking,       *)
(* concatenation and path joining are computed rather than assumed.        *)
(***************************************************************************)
EXTENDS Integers, Sequences, FiniteSets, TLC

VARIABLES
  input,      \* the token sequence upstream delivers, fixed per behaviour
  pos,        \* how many tokens of input have been consumed
  cfg,        \* the options the component under study was constructed with
  assembler,  \* the FullAssembler instance fed directly (FullAssembler runs)
  packer,     \* the closure state of one packEntry transformer
  sieve,      \* the closure state of objectSieve's second transformer
  stream,     \* an InflationStream: readable buffer, pending pushMany, listeners
  inject,     \* the closure state of injectEntry's injection transformer
  select,     \* the closure state of selectEntry's chained function
  out,        \* every token pushed downstream so far, in order
  hist,       \* per consumed token: what was observed after it (done, ...)
  ref         \* where the entries of the input documents lie (read by no transformer)

vars ==
  <<input, pos, cfg, assembler, packer, sieve, stream, inject, select, out, hist, ref>>

-----------------------------------------------------------------------------
(* Bounds of the explored inputs.                                          *)

MaxElems == 2        \* entries per object / elements per array
MaxStrLen == 2       \* characters per generated string value

-----------------------------------------------------------------------------
(* Generic helpers.                                                        *)

Nil == [nil |-> TRUE]

Front(s) == SubSeq(s, 1, Len(s) - 1)

Last(s) == s[Len(s)]

SeqsUpTo(S, n) == UNION {[1..k -> S] : k \in 0..n}

IsPrefix(s, t) == Len(s) <= Len(t) /\ SubSeq(t, 1, Len(s)) = s

RECURSIVE Flatten(_)
Flatten(ss) == IF ss = <<>> THEN <<>> ELSE Head(ss) \o Flatten(Tail(ss))

RECURSIVE SelectIdx(_, _, _)
\* the subsequence of s at the positions i for which Keep[i] holds
SelectIdx(s, Keep, i) ==
  IF i > Len(s) THEN <<>>
  ELSE (IF Keep[i] THEN <<s[i]>> ELSE <<>>) \o SelectIdx(s, Keep, i + 1)

-----------------------------------------------------------------------------
(* JSON values (type-fest JsonValue), as the assemblers build them.        *)

VNull == [t |-> "null"]
VTrue == [t |-> "true"]
VFalse == [t |-> "false"]
VStr(s) == [t |-> "string", s |-> s]
VNum(n) == [t |-> "number", n |-> n]
VArr(xs) == [t |-> "array", e |-> xs]
VObj(es) == [t |-> "object", e |-> es]     \* es: sequence of [k, v] entries
Entry(k, v) == [k |-> k, v |-> v]

\* JavaScript's obj[key] = value: overwrite in place, or append a new property
ObjSet(obj, k, v) ==
  IF \E i \in 1..Len(obj.e) : obj.e[i].k = k
    THEN VObj([i \in 1..Len(obj.e) |->
                 IF obj.e[i].k = k THEN Entry(k, v) ELSE obj.e[i]])
    ELSE VObj(Append(obj.e, Entry(k, v)))

-----------------------------------------------------------------------------
(* Decimal text of numbers: the tokens carry text, the assembler parses.   *)

Digits == <<"0", "1", "2", "3", "4", "5", "6", "7", "8", "9">>

DigitOf(c) == (CHOOSE i \in 1..10 : Digits[i] = c) - 1

RECURSIVE FormatNumber(_)
FormatNumber(n) ==
  IF n < 10 THEN <<Digits[n + 1]>>
  ELSE FormatNumber(n \div 10) \o <<Digits[(n % 10) + 1]>>

RECURSIVE parseFloat(_)
\* parseFloat on decimal digit text; the empty text is NaN, modelled as -1
parseFloat(text) ==
  IF text = <<>> THEN -1
  ELSE IF Len(text) = 1 THEN DigitOf(text[1])
  ELSE parseFloat(Front(text)) * 10 + DigitOf(Last(text))

-----------------------------------------------------------------------------
(* Tokens.                                                                 *)

Tok(name) == [name |-> name]
TokV(name, value) == [name |-> name, value |-> value]

KeyTokenNames == {"startKey", "endKey", "keyValue"}

SyntheticNames ==
  {"packedEntry", "sparseEntryKeyStart", "sparseEntryKeyEnd",
   "sparseEntryValueStart", "sparseEntryValueEnd"}

IsSynthetic(tok) == tok.name \in SyntheticNames

\* one chunk per character: the streamed form of a key, string or number
Chunks(name, text) == [i \in 1..Len(text) |-> TokV(name, <<text[i]>>)]

\* streamed-only, packed-only or streamed-and-packed form of a primitive
Primitive(kind, text, streamed, packed) ==
  LET chunk == IF kind = "Number" THEN "numberChunk" ELSE "stringChunk"
      packedName == IF kind = "Key" THEN "keyValue"
                    ELSE IF kind = "String" THEN "stringValue"
                    ELSE "numberValue"
  IN (IF streamed
        THEN <<Tok("start" \o kind)>> \o Chunks(chunk, text) \o <<Tok("end" \o kind)>>
        ELSE <<>>)
     \o (IF packed THEN <<TokV(packedName, text)>> ELSE <<>>)

\* the legal flag choices: every kind is streamed, packed, or both
FlagSets ==
  {f \in [streamKeys : BOOLEAN, packKeys : BOOLEAN,
          streamNumbers : BOOLEAN, packNumbers : BOOLEAN,
          streamStrings : BOOLEAN, packStrings : BOOLEAN] :
     /\ f.streamKeys \/ f.packKeys
     /\ f.streamNumbers \/ f.packNumbers
     /\ f.streamStrings \/ f.packStrings}

RECURSIVE tokenizeObject(_, _)
tokenizeObject(v, f) ==
  CASE v.t = "null" -> <<Tok("nullValue")>>
    [] v.t = "true" -> <<Tok("trueValue")>>
    [] v.t = "false" -> <<Tok("falseValue")>>
    [] v.t = "string" -> Primitive("String", v.s, f.streamStrings, f.packStrings)
    [] v.t = "number" ->
         Primitive("Number", FormatNumber(v.n), f.streamNumbers, f.packNumbers)
    [] v.t = "array" ->
         <<Tok("startArray")>>
         \o Flatten([i \in 1..Len(v.e) |-> tokenizeObject(v.e[i], f)])
         \o <<Tok("endArray")>>
    [] v.t = "object" ->
         <<Tok("startObject")>>
         \o Flatten([i \in 1..Len(v.e) |->
                       Primitive("Key", v.e[i].k, f.streamKeys, f.packKeys)
                       \o tokenizeObject(v.e[i].v, f)])
         \o <<Tok("endObject")>>

-----------------------------------------------------------------------------
(* The generated JSON values.                                              *)

KeyA == <<"a">>
KeyB == <<"b", "c">>
Keys == {KeyA, KeyB}

Strings == {s \in SeqsUpTo({"x"}, MaxStrLen) : Len(s) \in {0, MaxStrLen}}

Leaves == {VNull, VTrue, VNum(12)} \cup {VStr(s) : s \in Strings}

\* entry lists with pairwise distinct keys
EntryLists(Vals, n) ==
  {es \in SeqsUpTo({Entry(k, v) : k \in Keys, v \in Vals}, n) :
     \A i, j \in 1..Len(es) : i # j => es[i].k # es[j].k}

Containers(Vals, n) ==
  {VArr(xs) : xs \in SeqsUpTo(Vals, n)} \cup {VObj(es) : es \in EntryLists(Vals, n)}

Level1 == Containers(Leaves, MaxElems)

\* a container holding one small container, with a leaf beside it or not
Level2 ==
  LET Small == Containers(Leaves, 1)
  IN UNION {{VArr(<<c>>), VArr(<<c, l>>), VArr(<<l, c>>),
             VObj(<<Entry(KeyA, c)>>),
             VObj(<<Entry(KeyA, c), Entry(KeyB, l)>>),
             VObj(<<Entry(KeyB, l), Entry(KeyA, c)>>)} :
            c \in Small, l \in {VNull, VStr(<<"x">>)}}

JsonValues == Leaves \cup Level1 \cup Level2

-----------------------------------------------------------------------------
(* stream-json's Assembler, the superclass FullAssembler delegates to:     *)
(* `current`, `key`, `done` and a stack of [parent, key] pairs.            *)

NoKey == [isNull |-> TRUE, s |-> <<>>]
SomeKey(s) == [isNull |-> FALSE, s |-> s]

\* the property name a key is stored under (String(null) is "null")
PropertyName(key) == IF key.isNull THEN <<"n", "u", "l", "l">> ELSE key.s

Proxy == [t |-> "proxy"]

NewAssembler(sparseMode) ==
  [stack |-> <<>>, current |-> IF sparseMode THEN Proxy ELSE VNull,
   key |-> NoKey, done |-> TRUE, sparseMode |-> sparseMode,
   previouslyAssembledStreamedToken |-> "undefined",
   assembledString |-> <<>>, wasDone |-> TRUE]

\* assignment to `current`: in sparse mode the setter ignores the value
SetCurrent(a, v) == IF a.sparseMode THEN a ELSE [a EXCEPT !.current = v]

saveValue(a, value) ==
  IF a.done THEN SetCurrent(a, value)
  ELSE IF a.current.t = "array" THEN SetCurrent(a, VArr(Append(a.current.e, value)))
  ELSE IF a.current.t = "object"
    THEN [SetCurrent(a, ObjSet(a.current, PropertyName(a.key), value))
            EXCEPT !.key = NoKey]
  ELSE [a EXCEPT !.key = NoKey]     \* the proxy swallows the assignment

superKeyValue(a, value) == [a EXCEPT !.key = SomeKey(value)]

superStringValue(a, value) == saveValue(a, VStr(value))

superNumberValue(a, value) == saveValue(a, VNum(parseFloat(value)))

startContainer(a, empty) ==
  LET b == IF a.done THEN [a EXCEPT !.done = FALSE]
           ELSE [a EXCEPT !.stack = Append(@, [current |-> a.current, key |-> a.key])]
  IN [SetCurrent(b, empty) EXCEPT !.key = NoKey]

endContainer(a) ==
  IF Len(a.stack) > 0
    THEN LET top == Last(a.stack)
             b == [a EXCEPT !.key = top.key, !.current = top.current,
                            !.stack = Front(a.stack)]
         IN saveValue(b, a.current)
    ELSE [a EXCEPT !.done = TRUE]

-----------------------------------------------------------------------------
(* FullAssembler: the streamed key/string/number tokens on top of it.      *)

\* faulty variant: the marker of the last finalized primitive is never cleared
withoutPreviousTokenTracking(a) == a

withPreviousTokenTracking(a) ==
  [a EXCEPT !.previouslyAssembledStreamedToken = "undefined"]

beginAssemblingToken(a) == [a EXCEPT !.wasDone = a.done, !.done = FALSE]

appendToAssembledString(a, value) == [a EXCEPT !.assembledString = @ \o value]

superMethod(a, method, value) ==
  CASE method = "keyValue" -> superKeyValue(a, value)
    [] method = "stringValue" -> superStringValue(a, value)
    [] method = "numberValue" -> superNumberValue(a, value)

\* faulty variant: the packed duplicate of a streamed primitive is assembled again
skipMethodCallNever(a, method, value) == superMethod(a, method, value)

skipMethodCallIfPreviouslyAssembled(a, method, value) ==
  IF a.previouslyAssembledStreamedToken # method
    THEN superMethod(a, method, value)
    ELSE a

\* this.keyValue / this.stringValue / this.numberValue as the constructor binds them
packedMethod(a, method, value) ==
  withPreviousTokenTracking(skipMethodCallIfPreviouslyAssembled(a, method, value))

\* faulty variant: `done` is not restored before the assembled value is saved
finalizeWithoutRestoringDone(a, method) ==
  LET saved == packedMethod(a, method, a.assembledString)
  IN [saved EXCEPT !.previouslyAssembledStreamedToken = method,
                   !.assembledString = <<>>]

finalizeAssembledToken(a, method) ==
  LET restored == [a EXCEPT !.done = a.wasDone]
      saved == packedMethod(restored, method, restored.assembledString)
  IN [saved EXCEPT !.previouslyAssembledStreamedToken = method,
                   !.assembledString = <<>>]

AssemblerMethods ==
  {"startObject", "endObject", "startArray", "endArray",
   "startKey", "startString", "startNumber", "stringChunk", "numberChunk",
   "endKey", "endString", "endNumber", "keyValue", "stringValue", "numberValue",
   "nullValue", "trueValue", "falseValue"}

\* fullAssembler[name](value)
callMethod(a, tok) ==
  CASE tok.name \in {"startKey", "startString", "startNumber"} ->
         withPreviousTokenTracking(beginAssemblingToken(a))
    [] tok.name \in {"stringChunk", "numberChunk"} ->
         withPreviousTokenTracking(appendToAssembledString(a, tok.value))
    [] tok.name = "endKey" -> finalizeAssembledToken(a, "keyValue")
    [] tok.name = "endString" -> finalizeAssembledToken(a, "stringValue")
    [] tok.name = "endNumber" -> finalizeAssembledToken(a, "numberValue")
    [] tok.name \in {"keyValue", "stringValue", "numberValue"} ->
         packedMethod(a, tok.name, tok.value)
    [] tok.name = "startObject" -> withPreviousTokenTracking(startContainer(a, VObj(<<>>)))
    [] tok.name = "startArray" -> withPreviousTokenTracking(startContainer(a, VArr(<<>>)))
    [] tok.name \in {"endObject", "endArray"} -> withPreviousTokenTracking(endContainer(a))
    [] tok.name = "nullValue" -> withPreviousTokenTracking(saveValue(a, VNull))
    [] tok.name = "trueValue" -> withPreviousTokenTracking(saveValue(a, VTrue))
    [] tok.name = "falseValue" -> withPreviousTokenTracking(saveValue(a, VFalse))

\* FullAssembler.consume: a chunk naming no method is ignored
consume(a, tok) == IF tok.name \in AssemblerMethods THEN callMethod(a, tok) ELSE a

-----------------------------------------------------------------------------
(* useStackKeyTracking: the key path of the value being evaluated.         *)

PNull == [k |-> "null"]
PIndex(i) == [k |-> "number", i |-> i]
PKey(s) == [k |-> "string", s |-> s]

NewTracker ==
  [stack |-> <<>>, previousToken |-> "undefined",
   keyBuffer |-> [defined |-> FALSE, s |-> <<>>]]

getHead(tr) == IF tr.stack = <<>> THEN [k |-> "undefined"] ELSE Last(tr.stack)

\* pushHead({ incrementIfStackHeadIsArray: true })
incrementHead(tr) ==
  IF getHead(tr).k = "number"
    THEN [tr EXCEPT !.stack[Len(tr.stack)] = PIndex(@.i + 1)]
    ELSE tr

\* stack[stack.length - 1] = value; on an empty stack no element is added
setHead(tr, value) ==
  IF tr.stack = <<>> THEN tr
  ELSE [tr EXCEPT !.stack[Len(tr.stack)] = PKey(value)]

\* faulty variant: a packed value that follows its streamed form counts again
updateStackCountingDuplicates(tr, tok) ==
  LET first ==
        CASE tok.name \in {"startObject", "startArray", "startString", "startNumber",
                           "nullValue", "trueValue", "falseValue",
                           "numberValue", "stringValue"} -> incrementHead(tr)
          [] tok.name = "keyValue" -> setHead(tr, tok.value)
          [] OTHER -> tr
      second ==
        CASE tok.name = "startObject" -> [first EXCEPT !.stack = Append(@, PNull)]
          [] tok.name = "startArray" -> [first EXCEPT !.stack = Append(@, PIndex(-1))]
          [] tok.name = "startKey" ->
               [first EXCEPT !.keyBuffer = [defined |-> TRUE, s |-> <<>>]]
          [] tok.name = "stringChunk" ->
               IF first.keyBuffer.defined
                 THEN [first EXCEPT !.keyBuffer.s = @ \o tok.value] ELSE first
          [] tok.name = "endKey" ->
               [setHead(first, first.keyBuffer.s)
                  EXCEPT !.keyBuffer = [defined |-> FALSE, s |-> <<>>]]
          [] tok.name \in {"endObject", "endArray"} ->
               IF first.stack = <<>> THEN first
               ELSE [first EXCEPT !.stack = Front(@)]
          [] OTHER -> first
  IN [second EXCEPT !.previousToken = tok.name]

updateStack(tr, tok) ==
  LET first ==
        CASE tok.name \in {"startObject", "startArray", "startString", "startNumber",
                           "nullValue", "trueValue", "falseValue"} -> incrementHead(tr)
          [] tok.name = "keyValue" -> setHead(tr, tok.value)
          [] tok.name = "numberValue" ->
               IF tr.previousToken # "endNumber" THEN incrementHead(tr) ELSE tr
          [] tok.name = "stringValue" ->
               IF tr.previousToken # "endString" THEN incrementHead(tr) ELSE tr
          [] OTHER -> tr
      second ==
        CASE tok.name = "startObject" -> [first EXCEPT !.stack = Append(@, PNull)]
          [] tok.name = "startArray" -> [first EXCEPT !.stack = Append(@, PIndex(-1))]
          [] tok.name = "startKey" ->
               [first EXCEPT !.keyBuffer = [defined |-> TRUE, s |-> <<>>]]
          [] tok.name = "stringChunk" ->
               IF first.keyBuffer.defined
                 THEN [first EXCEPT !.keyBuffer.s = @ \o tok.value]
                 ELSE first
          [] tok.name = "endKey" ->
               [setHead(first, first.keyBuffer.s)
                  EXCEPT !.keyBuffer = [defined |-> FALSE, s |-> <<>>]]
          [] tok.name \in {"endObject", "endArray"} ->
               IF first.stack = <<>> THEN first
               ELSE [first EXCEPT !.stack = Front(@)]
          [] OTHER -> first
  IN [second EXCEPT !.previousToken = tok.name]

\* String(element) as Array.prototype.join renders it: null is the empty string
ElementText(el) ==
  CASE el.k = "null" -> <<>>
    [] el.k = "string" -> el.s
    [] el.k = "number" ->
         IF el.i < 0 THEN <<"-">> \o FormatNumber(0 - el.i) ELSE FormatNumber(el.i)

RECURSIVE join(_, _)
join(stack, pathSeparator) ==
  IF stack = <<>> THEN <<>>
  ELSE IF Len(stack) = 1 THEN ElementText(stack[1])
  ELSE join(Front(stack), pathSeparator) \o pathSeparator \o ElementText(Last(stack))

-----------------------------------------------------------------------------
(* Key filters: a string is compared with the whole joined path, a regular *)
(* expression (a literal with optional ^ and $ anchors) is searched in it. *)

StringFilter(s) == [regexp |-> FALSE, s |-> s]
RegExpFilter(s, fromStart, toEnd) ==
  [regexp |-> TRUE, s |-> s, fromStart |-> fromStart, toEnd |-> toEnd]

OccursAt(path, lit, i) ==
  i >= 1 /\ i + Len(lit) - 1 <= Len(path) /\ SubSeq(path, i, i + Len(lit) - 1) = lit

\* stackPath === key, or stackPath.match(key)
Matches(filter, stackPath) ==
  IF ~filter.regexp THEN stackPath = filter.s
  ELSE \E i \in 1..(Len(stackPath) + 1) :
         /\ OccursAt(stackPath, filter.s, i)
         /\ filter.fromStart => i = 1
         /\ filter.toEnd => i + Len(filter.s) - 1 = Len(stackPath)

\* faulty variant: the last filter that matches
FindLastMatcher(keys, stackPath) ==
  IF \E i \in 1..Len(keys) : Matches(keys[i], stackPath)
    THEN CHOOSE i \in 1..Len(keys) :
           /\ Matches(keys[i], stackPath)
           /\ \A j \in (i + 1)..Len(keys) : ~Matches(keys[j], stackPath)
    ELSE 0

\* keys.find(...): the index of the first filter that matches, 0 if none does
FindMatcher(keys, stackPath) ==
  IF \E i \in 1..Len(keys) : Matches(keys[i], stackPath)
    THEN CHOOSE i \in 1..Len(keys) :
           /\ Matches(keys[i], stackPath)
           /\ \A j \in 1..(i - 1) : ~Matches(keys[j], stackPath)
    ELSE 0

\* if (potentialMatcher): undefined (no filter found) is falsy, and so is a
\* filter that is the empty string; a regular expression is an object
IsTruthy(keys, potentialMatcher) ==
  /\ potentialMatcher # 0
  /\ keys[potentialMatcher].regexp \/ keys[potentialMatcher].s # <<>>

-----------------------------------------------------------------------------
(* packEntry.                                                              *)

NoError == "none"

NewPacker(sparseMode) ==
  [assembler |-> NewAssembler(sparseMode), tracker |-> NewTracker,
   keyTokenBuffer |-> <<>>, packingState |-> "idle",
   matcher |-> 0, sawFirstValueChunk |-> FALSE, entryTokenBase |-> Nil]

getEntryTokenBase(pk, c) ==
  [key |-> getHead(pk.tracker).s, stack |-> pk.tracker.stack,
   matcher |-> pk.matcher, owner |-> c.ownerSymbol]

SyntheticToken(name, base) == [name |-> name] @@ base

PackedEntryToken(base, value) == [name |-> "packedEntry", value |-> value] @@ base

\* the result of one _transform call: the closure state afterwards, the
\* tokens pushed (in push order) and the error handed to the callback
Result(pk, pushed, error) == [state |-> pk, pushed |-> pushed, error |-> error]

\* faulty variant: no entry token when the chunk after the matched value
\* closes an object or an array
finalizingValueTokensPrimitivesOnly(pk, chunk, c) ==
  LET isOurValueToken == chunk.name \in {"numberValue", "stringValue"}
  IN (IF isOurValueToken /\ ~c.discardComponentTokens THEN <<chunk>> ELSE <<>>)
     \o (IF pk.tracker.previousToken \in {"endObject", "endArray"} THEN <<>>
         ELSE <<IF c.sparseMode
                  THEN SyntheticToken("sparseEntryValueEnd", pk.entryTokenBase)
                  ELSE PackedEntryToken(pk.entryTokenBase, pk.assembler.current)>>)

\* faulty variant: the entry token is pushed before the packed duplicate
finalizingValueTokensEntryFirst(pk, chunk, c) ==
  <<IF c.sparseMode
      THEN SyntheticToken("sparseEntryValueEnd", pk.entryTokenBase)
      ELSE PackedEntryToken(pk.entryTokenBase, pk.assembler.current)>>
  \o (IF chunk.name \in {"numberValue", "stringValue"} /\ ~c.discardComponentTokens
        THEN <<chunk>> ELSE <<>>)

finalizingValueTokens(pk, chunk, c) ==
  LET isOurValueToken == chunk.name \in {"numberValue", "stringValue"}
  IN (IF isOurValueToken /\ ~c.discardComponentTokens THEN <<chunk>> ELSE <<>>)
     \o <<IF c.sparseMode
            THEN SyntheticToken("sparseEntryValueEnd", pk.entryTokenBase)
            ELSE PackedEntryToken(pk.entryTokenBase, pk.assembler.current)>>

\* faulty variant: the chunk that completes the value is not forwarded
packingValueStepDropsLast(pk, chunk, c) ==
  IF chunk.name \notin AssemblerMethods
    THEN Result(pk, <<>>, "TypeError")
    ELSE
      LET a == callMethod(pk.assembler, chunk)
          isFirstValueChunk == ~pk.sawFirstValueChunk
          next == [pk EXCEPT !.assembler = a, !.sawFirstValueChunk = TRUE,
                             !.packingState = IF a.done THEN "finalizing-value" ELSE @]
          tokens ==
            (IF c.sparseMode /\ isFirstValueChunk
               THEN <<SyntheticToken("sparseEntryValueStart", pk.entryTokenBase)>>
               ELSE <<>>)
            \o (IF ~c.discardComponentTokens /\ ~a.done THEN <<chunk>> ELSE <<>>)
      IN Result(next, tokens, NoError)

packingValueStep(pk, chunk, c) ==
  IF chunk.name \notin AssemblerMethods
    THEN Result(pk, <<>>, "TypeError")
    ELSE
      LET a == callMethod(pk.assembler, chunk)
          isFirstValueChunk == ~pk.sawFirstValueChunk
          next == [pk EXCEPT !.assembler = a, !.sawFirstValueChunk = TRUE,
                             !.packingState = IF a.done THEN "finalizing-value" ELSE @]
          tokens ==
            (IF c.sparseMode /\ isFirstValueChunk
               THEN <<SyntheticToken("sparseEntryValueStart", pk.entryTokenBase)>>
               ELSE <<>>)
            \o (IF ~c.discardComponentTokens THEN <<chunk>> ELSE <<>>)
      IN Result(next, tokens, NoError)

\* faulty variant: the buffered key tokens of a match are flushed even when
\* component tokens are to be discarded
finalizingKeyBufferKeepsKeys(pk, chunk, c) ==
  LET kept == IF chunk.name = "keyValue"
                THEN Append(pk.keyTokenBuffer, chunk)
                ELSE pk.keyTokenBuffer
  IN IF c.sparseMode
       THEN <<SyntheticToken("sparseEntryKeyStart", pk.entryTokenBase)>>
            \o kept
            \o <<SyntheticToken("sparseEntryKeyEnd", pk.entryTokenBase)>>
       ELSE kept

\* faulty variant: sparseEntryKeyEnd is pushed in front of the key tokens
finalizingKeyBufferEndFirst(pk, chunk, c) ==
  LET kept == IF c.discardComponentTokens THEN <<>>
              ELSE IF chunk.name = "keyValue"
                THEN Append(pk.keyTokenBuffer, chunk)
                ELSE pk.keyTokenBuffer
  IN IF c.sparseMode
       THEN <<SyntheticToken("sparseEntryKeyStart", pk.entryTokenBase)>>
            \o <<SyntheticToken("sparseEntryKeyEnd", pk.entryTokenBase)>>
            \o kept
       ELSE kept

finalizingKeyBuffer(pk, chunk, c) ==
  LET withDuplicate == IF chunk.name = "keyValue"
                         THEN Append(pk.keyTokenBuffer, chunk)
                         ELSE pk.keyTokenBuffer
      kept == IF c.discardComponentTokens THEN <<>> ELSE withDuplicate
  IN IF c.sparseMode
       THEN <<SyntheticToken("sparseEntryKeyStart", pk.entryTokenBase)>>
            \o kept
            \o <<SyntheticToken("sparseEntryKeyEnd", pk.entryTokenBase)>>
       ELSE kept

\* faulty variant: the buffered tokens of a key that matches no filter are
\* dropped instead of flushed when component tokens are to be discarded
packingKeyStepDropsUnmatched(pk, chunk, c) ==
  IF chunk.name \notin AssemblerMethods
    THEN Result([pk EXCEPT !.packingState = "packing-key"], <<>>, "TypeError")
    ELSE
      LET a == callMethod(pk.assembler, chunk)
          buffered == [pk EXCEPT !.packingState = "packing-key", !.assembler = a,
                                 !.keyTokenBuffer = Append(@, chunk)]
          potentialMatcher ==
            FindMatcher(c.key, join(pk.tracker.stack, c.pathSeparator))
      IN IF ~a.done THEN Result(buffered, <<>>, NoError)
         ELSE IF IsTruthy(c.key, potentialMatcher) /\ getHead(pk.tracker).k = "string"
           THEN LET matched == [buffered EXCEPT !.matcher = potentialMatcher]
                IN Result([matched EXCEPT
                             !.entryTokenBase = getEntryTokenBase(matched, c),
                             !.packingState = "finalizing-key"],
                          <<>>, NoError)
           ELSE Result([buffered EXCEPT !.keyTokenBuffer = <<>>,
                                        !.packingState = "idle"],
                       IF c.discardComponentTokens THEN <<>>
                       ELSE buffered.keyTokenBuffer, NoError)

packingKeyStep(pk, chunk, c) ==
  IF chunk.name \notin AssemblerMethods
    THEN Result([pk EXCEPT !.packingState = "packing-key"], <<>>, "TypeError")
    ELSE
      LET a == callMethod(pk.assembler, chunk)
          buffered == [pk EXCEPT !.packingState = "packing-key", !.assembler = a,
                                 !.keyTokenBuffer = Append(@, chunk)]
          stackPath == join(pk.tracker.stack, c.pathSeparator)
          potentialMatcher == FindMatcher(c.key, stackPath)
      IN IF ~a.done THEN Result(buffered, <<>>, NoError)
         ELSE IF IsTruthy(c.key, potentialMatcher)
           THEN IF getHead(pk.tracker).k # "string"
                  THEN Result([buffered EXCEPT !.matcher = potentialMatcher],
                              <<>>, "AssertionError")
                  ELSE LET matched == [buffered EXCEPT !.matcher = potentialMatcher]
                       IN Result([matched EXCEPT
                                    !.entryTokenBase = getEntryTokenBase(matched, c),
                                    !.packingState = "finalizing-key"],
                                 <<>>, NoError)
           ELSE Result([buffered EXCEPT !.keyTokenBuffer = <<>>,
                                        !.packingState = "idle"],
                       buffered.keyTokenBuffer, NoError)

\* the branch taken once the stack is up to date; `rerun` is the second pass
\* of a chunk through the transformer after a finalizing state has flushed
RECURSIVE packBranch(_, _, _)
packBranch(pk, chunk, c) ==
  CASE pk.packingState = "finalizing-value" ->
         LET tokens == finalizingValueTokens(pk, chunk, c)
             idle == [pk EXCEPT !.packingState = "idle"]
         IN IF chunk.name \in {"numberValue", "stringValue"}
              THEN Result(idle, tokens, NoError)
              ELSE LET rerun == packBranch(idle, chunk, c)
                   IN Result(rerun.state, tokens \o rerun.pushed, rerun.error)
    [] pk.packingState = "packing-value" -> packingValueStep(pk, chunk, c)
    [] pk.packingState = "finalizing-key" ->
         LET tokens == finalizingKeyBuffer(pk, chunk, c)
             packing == [pk EXCEPT !.keyTokenBuffer = <<>>,
                                   !.sawFirstValueChunk = FALSE,
                                   !.packingState = "packing-value"]
         IN IF chunk.name = "keyValue"
              THEN Result(packing, tokens, NoError)
              ELSE LET rerun == packBranch(packing, chunk, c)
                   IN Result(rerun.state, tokens \o rerun.pushed, rerun.error)
    [] pk.packingState \in {"idle", "packing-key"} ->
         IF chunk.name \in KeyTokenNames \/ pk.packingState = "packing-key"
           THEN packingKeyStep(pk, chunk, c)
           ELSE Result(pk, <<chunk>>, NoError)

\* transform(chunk, callback): updateStack, then the state machine
packTransform(pk, chunk, c) ==
  packBranch([pk EXCEPT !.tracker = updateStack(@, chunk)], chunk, c)

-----------------------------------------------------------------------------
(* The documents fed to the filters, and where their entries lie.          *)

\* each token carries `at`, its position in the input; no transformer reads it
Indexed(toks) == [i \in 1..Len(toks) |-> [at |-> i] @@ toks[i]]

RECURSIVE tokenizeAll(_, _)
tokenizeAll(docs, f) ==
  IF docs = <<>> THEN <<>>
  ELSE tokenizeObject(Head(docs), f) \o tokenizeAll(Tail(docs), f)

KeyLen(k, f) == Len(Primitive("Key", k, f.streamKeys, f.packKeys))

\* tokens of v that precede its i-th child (for an entry: its key tokens)
RECURSIVE ChildOffset(_, _, _)
ChildOffset(v, f, i) ==
  IF i = 1 THEN 1
  ELSE ChildOffset(v, f, i - 1)
       + (IF v.t = "object"
            THEN KeyLen(v.e[i - 1].k, f) + Len(tokenizeObject(v.e[i - 1].v, f))
            ELSE Len(tokenizeObject(v.e[i - 1], f)))

\* the entries of v and of everything inside it: v starts after `offset` tokens
\* and sits at key path `path`; an entry's key tokens are input[ks..ke], its
\* value tokens input[vs..ve]
RECURSIVE EntrySpans(_, _, _, _)
EntrySpans(v, f, offset, path) ==
  IF v.t = "object"
    THEN UNION {
      LET ks == offset + ChildOffset(v, f, i) + 1
          ke == ks + KeyLen(v.e[i].k, f) - 1
          ve == ke + Len(tokenizeObject(v.e[i].v, f))
          entryPath == Append(path, PKey(v.e[i].k))
      IN {[path |-> entryPath, key |-> v.e[i].k, value |-> v.e[i].v,
           ks |-> ks, ke |-> ke, vs |-> ke + 1, ve |-> ve]}
         \cup EntrySpans(v.e[i].v, f, ke, entryPath) : i \in 1..Len(v.e)}
  ELSE IF v.t = "array"
    THEN UNION {EntrySpans(v.e[i], f, offset + ChildOffset(v, f, i),
                           Append(path, PIndex(i - 1))) : i \in 1..Len(v.e)}
  ELSE {}

RECURSIVE RootSpans(_, _, _)
RootSpans(docs, f, offset) ==
  IF docs = <<>> THEN {}
  ELSE EntrySpans(Head(docs), f, offset, <<>>)
       \cup RootSpans(Tail(docs), f, offset + Len(tokenizeObject(Head(docs), f)))

\* the objects of v and of everything inside it, each with the key path it
\* sits at; its tokens are input[s..e]
RECURSIVE ObjectSpans(_, _, _, _)
ObjectSpans(v, f, offset, path) ==
  (IF v.t = "object"
     THEN {[path |-> path, value |-> v, s |-> offset + 1,
            e |-> offset + Len(tokenizeObject(v, f))]}
     ELSE {})
  \cup
  (IF v.t = "object"
     THEN UNION {ObjectSpans(v.e[i].v, f,
                             offset + ChildOffset(v, f, i) + KeyLen(v.e[i].k, f),
                             Append(path, PKey(v.e[i].k))) : i \in 1..Len(v.e)}
   ELSE IF v.t = "array"
     THEN UNION {ObjectSpans(v.e[i], f, offset + ChildOffset(v, f, i),
                             Append(path, PIndex(i - 1))) : i \in 1..Len(v.e)}
   ELSE {})

\* the objects of a stream of root values; `root` tells the values apart
RECURSIVE RootObjectSpans(_, _, _, _)
RootObjectSpans(docs, f, offset, root) ==
  IF docs = <<>> THEN {}
  ELSE {[root |-> root, rootIsArray |-> Head(docs).t = "array"] @@ o :
          o \in ObjectSpans(Head(docs), f, offset, <<>>)}
       \cup RootObjectSpans(Tail(docs), f,
                            offset + Len(tokenizeObject(Head(docs), f)), root + 1)

AllConsumed == pos = Len(input)

EntryMatches(e, key, pathSeparator) ==
  FindMatcher(key, join(e.path, pathSeparator)) # 0

Inside(e, outer) == outer.vs <= e.ks /\ e.ve <= outer.ve

\* the matching entries that do not lie inside the value of a matching entry
OutermostMatches(entries, key, pathSeparator) ==
  {e \in entries :
     /\ EntryMatches(e, key, pathSeparator)
     /\ ~\E outer \in entries :
           outer # e /\ EntryMatches(outer, key, pathSeparator) /\ Inside(e, outer)}

\* the entries of the documents, those a filter list matches, and for every
\* input position whether it holds a key or value token of a matched entry
Reference(docs, f, key, pathSeparator) ==
  LET entries == RootSpans(docs, f, 0)
      matched == OutermostMatches(entries, key, pathSeparator)
  IN [entries |-> entries,
      matching |-> {e \in entries : EntryMatches(e, key, pathSeparator)},
      matched |-> matched,
      inMatched |-> [i \in 1..Len(tokenizeAll(docs, f)) |->
                       \E e \in matched : e.ks <= i /\ i <= e.ve]]

AllEntries == ref.entries

MatchedEntries == ref.matched

InMatchedEntry(i) == ref.inMatched[i]

-----------------------------------------------------------------------------
(* packEntry fed one document.                                             *)

Dot == <<".">>

PackValues ==
  {VNull, VStr(<<"x", "x">>), VNum(12), VObj(<<>>),
   VObj(<<Entry(KeyA, VStr(<<"x">>))>>), VArr(<<VNum(12)>>),
   VArr(<<VObj(<<Entry(KeyB, VNull)>>)>>)}

PackDocs ==
  {VObj(es) : es \in EntryLists(PackValues, MaxElems)}
  \cup {VArr(<<VObj(es)>>) : es \in EntryLists(PackValues, 1)}

PackFilters ==
  {<<StringFilter(KeyA)>>,
   <<StringFilter(KeyA \o Dot \o KeyB)>>,
   <<StringFilter(<<"0">> \o Dot \o KeyA), StringFilter(KeyB)>>,
   <<RegExpFilter(KeyB, FALSE, TRUE)>>,
   <<StringFilter(<<"z">>)>>}

OwnerA == "owner-a"

InitPack(sparseModes) ==
  /\ \E doc \in PackDocs, f \in FlagSets, key \in PackFilters,
        discard \in BOOLEAN, sparseMode \in sparseModes :
       /\ f.streamNumbers = f.streamStrings /\ f.packNumbers = f.packStrings
       /\ cfg = [docs |-> <<doc>>, flags |-> f, key |-> key,
                 discardComponentTokens |-> discard, sparseMode |-> sparseMode,
                 ownerSymbol |-> OwnerA, pathSeparator |-> Dot]
       /\ input = Indexed(tokenizeObject(doc, f))
       /\ ref = Reference(<<doc>>, f, key, Dot)
       /\ packer = NewPacker(sparseMode)
  /\ pos = 0
  /\ out = <<>>
  /\ hist = <<>>
  /\ assembler = Nil
  /\ sieve = Nil /\ stream = Nil /\ inject = Nil /\ select = Nil

\* upstream writes the next token and packEntry's _transform handles it
PackChunk ==
  /\ pos < Len(input)
  /\ \A i \in 1..Len(hist) : hist[i].error = NoError
  /\ LET r == packTransform(packer, input[pos + 1], cfg)
     IN /\ packer' = r.state
        /\ out' = out \o r.pushed
        /\ hist' = Append(hist, [error |-> r.error, pushed |-> Len(r.pushed)])
  /\ pos' = pos + 1
  /\ UNCHANGED <<input, cfg, assembler, sieve, stream, inject, select, ref>>

NextPack == PackChunk

SpecPack == InitPack({FALSE}) /\ [][NextPack]_vars

-----------------------------------------------------------------------------
(* packEntry: placement, pass-through and discarding.                      *)

At(tok) == IF IsSynthetic(tok) THEN 0 ELSE tok.at

NonSynthetic(toks) ==
  SelectIdx(toks, [i \in 1..Len(toks) |-> ~IsSynthetic(toks[i])], 1)

Synthetic(toks) ==
  SelectIdx(toks, [i \in 1..Len(toks) |-> IsSynthetic(toks[i])], 1)

\* the input tokens up to position n that belong to no matched entry
Unmatched(n) ==
  SelectIdx(SubSeq(input, 1, n), [i \in 1..n |-> ~InMatchedEntry(i)], 1)

PackedEntriesOf(e) ==
  {p \in 1..Len(out) : out[p].name = "packedEntry" /\ out[p].stack = e.path}

\* C1: in non-sparse mode the packedEntry of a matched entry is emitted once,
\* immediately after the last token of the entry's value (after its end token
\* and after a trailing packed duplicate), never earlier, and no token of the
\* entry follows it.
C1_PackedEntryPlacement ==
  \A e \in MatchedEntries :
    /\ pos < e.ve => PackedEntriesOf(e) = {}
    /\ pos > e.ve => Cardinality(PackedEntriesOf(e)) = 1
    /\ \A p \in PackedEntriesOf(e) :
         /\ \A q \in 1..Len(out) :
              ~IsSynthetic(out[q]) => (q < p <=> out[q].at <= e.ve)
         /\ ~cfg.discardComponentTokens => (p > 1 /\ At(out[p - 1]) = e.ve)
         /\ out[p].key = e.key

\* C1 witness: a matched entry whose string value is streamed and packed has
\* its packedEntry right after the packed duplicate.
C1_Witness ==
  \E e \in MatchedEntries :
    /\ ~cfg.discardComponentTokens /\ pos > e.ve
    /\ input[e.ve].name = "stringValue" /\ input[e.ve - 1].name = "endString"
    /\ \E p \in PackedEntriesOf(e) : p > 1 /\ At(out[p - 1]) = e.ve

NoEntryMatches == ref.matching = {}

\* C9: if no filter matches any entry, the tokens output so far plus the
\* buffered key tokens are exactly the tokens consumed so far, and the whole
\* output equals the whole input, with discardComponentTokens true or false.
C9_PassThrough ==
  NoEntryMatches =>
    /\ out \o packer.keyTokenBuffer = SubSeq(input, 1, pos)
    /\ AllConsumed => out = input

\* C9 witness: a document with keys both streamed and packed went through a
\* discarding packEntry none of whose filters matches.
C9_Witness ==
  /\ NoEntryMatches /\ AllEntries # {} /\ AllConsumed
  /\ cfg.discardComponentTokens
  /\ cfg.flags.streamKeys /\ cfg.flags.packKeys
  /\ out = input

\* C10: with discardComponentTokens, no key token and no value token of a
\* matched entry is ever output, every other token is output unchanged and in
\* order, and each matched entry leaves exactly its synthetic token.
C10_DiscardComponentTokens ==
  cfg.discardComponentTokens =>
    /\ IsPrefix(NonSynthetic(out), Unmatched(pos))
    /\ AllConsumed =>
         /\ NonSynthetic(out) = Unmatched(Len(input))
         /\ Len(Synthetic(out)) = Cardinality(MatchedEntries)

\* C10 witness: a discarding packEntry has consumed a document with a matched
\* entry holding a container and an unmatched entry.
C10_Witness ==
  /\ cfg.discardComponentTokens /\ AllConsumed
  /\ \E e \in MatchedEntries : e.value.t \in {"object", "array"} /\ e.value.e # <<>>
  /\ \E e \in AllEntries : ~InMatchedEntry(e.ks)
  /\ Len(Synthetic(out)) = 1
  /\ NonSynthetic(out) = Unmatched(Len(input))

\* packEntry in either mode
SpecPackModes == InitPack(BOOLEAN) /\ [][NextPack]_vars

SyntheticOf(e, name) ==
  {p \in 1..Len(out) : out[p].name = name /\ out[p].stack = e.path}

EntryTokenNames ==
  IF cfg.sparseMode THEN SyntheticNames \ {"packedEntry"} ELSE {"packedEntry"}

ExactlyOneEach(e) ==
  \A name \in SyntheticNames :
    Cardinality(SyntheticOf(e, name)) = IF name \in EntryTokenNames THEN 1 ELSE 0

NestedMatches == ref.matching \ ref.matched

PackFailed == \E i \in 1..Len(hist) : hist[i].error # NoError

\* C11 as stated: once the stream has been consumed, every entry whose key
\* path a filter matches has exactly one packedEntry (in sparse mode exactly
\* one of each bracket token), the entries inside the value of another
\* matched entry included.
C11_OnePackedEntryPerMatch ==
  (AllConsumed /\ ~PackFailed) => \A e \in ref.matching : ExactlyOneEach(e)

\* C11 amended: once the stream has been consumed, every matching entry that
\* does not lie inside the value of another matching entry has exactly one
\* packedEntry (in sparse mode exactly one of each of the four bracket
\* tokens), and a matching entry inside the value of another one has none.
C11_OnePackedEntryPerOutermostMatch ==
  /\ ~PackFailed
  /\ AllConsumed =>
       /\ \A e \in MatchedEntries : ExactlyOneEach(e)
       /\ \A e \in NestedMatches : \A name \in SyntheticNames : SyntheticOf(e, name) = {}
       /\ Len(Synthetic(out)) = Cardinality(MatchedEntries) * Cardinality(EntryTokenNames)

\* C11 witness: a sparse packEntry has consumed a document in which a
\* matching entry lies inside the value of another one; the outer entry has
\* its four bracket tokens.
C11_Witness ==
  /\ AllConsumed /\ cfg.sparseMode
  /\ NestedMatches # {}
  /\ \E e \in MatchedEntries :
       /\ \E n \in NestedMatches : Inside(n, e)
       /\ ExactlyOneEach(e)

-----------------------------------------------------------------------------
(* packEntry: what is forwarded, and the brackets of sparse mode.          *)

\* C31: without discardComponentTokens the output of packEntry, its
\* synthetic tokens left out, is the input consumed so far less the key
\* tokens still buffered, and the whole input once the stream is consumed:
\* every input token is forwarded once, in its place, in either mode.
C31_InputForwardedOnce ==
  (~cfg.discardComponentTokens /\ ~PackFailed) =>
    /\ NonSynthetic(out) \o packer.keyTokenBuffer = SubSeq(input, 1, pos)
    /\ AllConsumed => NonSynthetic(out) = input

\* C31 witness: a sparse packEntry that keeps component tokens has consumed
\* a document with a matched entry whose key and string value are streamed
\* and packed, and with an entry that does not match.
C31_Witness ==
  /\ ~cfg.discardComponentTokens /\ cfg.sparseMode /\ AllConsumed
  /\ cfg.flags.streamKeys /\ cfg.flags.packKeys
  /\ cfg.flags.streamStrings /\ cfg.flags.packStrings
  /\ \E e \in MatchedEntries : e.value.t = "string"
  /\ \E e \in AllEntries : ~InMatchedEntry(e.ks)
  /\ Synthetic(out) # <<>>
  /\ NonSynthetic(out) = input

\* the synthetic token `name` of entry e
BracketOf(e, name) ==
  SyntheticToken(name, [key |-> e.key, stack |-> e.path,
                        matcher |-> FindMatcher(cfg.key, join(e.path, cfg.pathSeparator)),
                        owner |-> cfg.ownerSymbol])

\* what a matched entry leaves in sparse mode
SparseTokensOf(e) ==
  <<BracketOf(e, "sparseEntryKeyStart")>>
  \o (IF cfg.discardComponentTokens THEN <<>> ELSE SubSeq(input, e.ks, e.ke))
  \o <<BracketOf(e, "sparseEntryKeyEnd"), BracketOf(e, "sparseEntryValueStart")>>
  \o (IF cfg.discardComponentTokens THEN <<>> ELSE SubSeq(input, e.vs, e.ve))
  \o <<BracketOf(e, "sparseEntryValueEnd")>>

\* C32: in sparse mode a matched entry leaves, with nothing in between,
\* sparseEntryKeyStart, its key tokens, sparseEntryKeyEnd,
\* sparseEntryValueStart, its value tokens (a packed duplicate included)
\* and sparseEntryValueEnd; with discardComponentTokens the four bracket
\* tokens alone, in that order.
C32_SparseBrackets ==
  (cfg.sparseMode /\ AllConsumed /\ ~PackFailed) =>
    \A e \in MatchedEntries :
      \E p \in 1..Len(out) :
        /\ p + Len(SparseTokensOf(e)) - 1 <= Len(out)
        /\ SubSeq(out, p, p + Len(SparseTokensOf(e)) - 1) = SparseTokensOf(e)

\* C32 witness: a matched entry with a streamed and packed key and a
\* streamed and packed string value, component tokens kept.
C32_Witness ==
  /\ cfg.sparseMode /\ AllConsumed /\ ~PackFailed /\ ~cfg.discardComponentTokens
  /\ cfg.flags.streamKeys /\ cfg.flags.packKeys
  /\ cfg.flags.streamStrings /\ cfg.flags.packStrings
  /\ \E e \in MatchedEntries :
       /\ e.value.t = "string" /\ e.ve - e.vs >= 3
       /\ \E p \in 1..Len(out) :
            SubSeq(out, p, p + Len(SparseTokensOf(e)) - 1) = SparseTokensOf(e)

\* C32, second witness: the same with the component tokens discarded.
C32_WitnessDiscarding ==
  /\ cfg.sparseMode /\ AllConsumed /\ ~PackFailed /\ cfg.discardComponentTokens
  /\ \E e \in MatchedEntries :
       \E p \in 1..Len(out) :
         /\ p + 3 <= Len(out)
         /\ SubSeq(out, p, p + 3) = SparseTokensOf(e)

-----------------------------------------------------------------------------
(* packEntry when pushMany reports an error to its completion callback.    *)

PushError == "PushError"

\* the n-th pushMany of a chunk fails: it had tokens to push and n is among
\* the pushes chosen to fail
pushFails(tokens, fails, n) == tokens # <<>> /\ n \in fails

\* what transform(chunk, callback) comes to: the tokens pushed, the error
\* handed to callback, whether a pushMany failed at all
Outcome(pk, pushed, error, failed) ==
  [state |-> pk, pushed |-> pushed, error |-> error, failed |-> failed]

\* the state machine of transform with every completion callback of
\* pushMany and releaseKeyTokenBuffer as written
RECURSIVE packBranchFailing(_, _, _, _, _)
packBranchFailing(pk, chunk, c, fails, n) ==
  CASE pk.packingState = "finalizing-value" ->
         LET tokens == finalizingValueTokens(pk, chunk, c)
             failed == pushFails(tokens, fails, n)
             gone == IF failed THEN <<>> ELSE tokens
             idle == [pk EXCEPT !.packingState = "idle"]
         IN IF chunk.name \in {"numberValue", "stringValue"}
              THEN Outcome(idle, gone, IF failed THEN PushError ELSE NoError, failed)
              ELSE LET rerun == packBranchFailing(idle, chunk, c, fails, n + 1)
                   IN Outcome(rerun.state, gone \o rerun.pushed, rerun.error,
                              failed \/ rerun.failed)
    [] pk.packingState = "packing-value" ->
         LET r == packingValueStep(pk, chunk, c)
             failed == r.error = NoError /\ pushFails(r.pushed, fails, n)
         IN Outcome(r.state, IF failed THEN <<>> ELSE r.pushed,
                    IF failed THEN PushError ELSE r.error, failed)
    [] pk.packingState = "finalizing-key" ->
         LET tokens == finalizingKeyBuffer(pk, chunk, c)
             failed == pushFails(tokens, fails, n)
             gone == IF failed THEN <<>> ELSE tokens
             packing == [pk EXCEPT !.keyTokenBuffer = <<>>,
                                   !.sawFirstValueChunk = FALSE,
                                   !.packingState = "packing-value"]
         IN IF chunk.name = "keyValue"
              THEN Outcome(packing, gone, IF failed THEN PushError ELSE NoError, failed)
              ELSE LET rerun == packBranchFailing(packing, chunk, c, fails, n + 1)
                   IN Outcome(rerun.state, gone \o rerun.pushed, rerun.error,
                              failed \/ rerun.failed)
    [] pk.packingState \in {"idle", "packing-key"} ->
         LET r == IF chunk.name \in KeyTokenNames \/ pk.packingState = "packing-key"
                    THEN packingKeyStep(pk, chunk, c)
                    ELSE Result(pk, <<chunk>>, NoError)
             failed == r.error = NoError /\ pushFails(r.pushed, fails, n)
         IN Outcome(r.state, IF failed THEN <<>> ELSE r.pushed,
                    IF failed THEN PushError ELSE r.error, failed)

\* at most this many pushMany calls are made for one chunk
MaxPushes == 2

InitPackFailing ==
  /\ InitPack({FALSE})
  /\ ~cfg.discardComponentTokens
  /\ cfg.key \in {<<StringFilter(KeyA)>>, <<RegExpFilter(KeyB, FALSE, TRUE)>>}
  /\ cfg.flags.streamKeys = cfg.flags.streamStrings
  /\ cfg.flags.packKeys = cfg.flags.packStrings

\* upstream writes the next token; any of the pushMany calls made for it
\* may report an error
PackChunkFailing ==
  /\ pos < Len(input)
  /\ \A i \in 1..Len(hist) : hist[i].error = NoError
  /\ \E fails \in SUBSET (1..MaxPushes) :
       LET stacked == [packer EXCEPT !.tracker = updateStack(@, input[pos + 1])]
           r == packBranchFailing(stacked, input[pos + 1], cfg, fails, 1)
       IN /\ packer' = r.state
          /\ out' = out \o r.pushed
          /\ hist' = Append(hist, [error |-> r.error, pushed |-> Len(r.pushed),
                                   failed |-> r.failed])
  /\ pos' = pos + 1
  /\ UNCHANGED <<input, cfg, assembler, sieve, stream, inject, select, ref>>

NextPackFailing == PackChunkFailing

SpecPackFailing == InitPackFailing /\ [][NextPackFailing]_vars

\* C35 as stated: whenever a push of packEntry (the release of the key
\* buffer, the finalization of a value, any other) reports an error to its
\* completion callback, the callback of the chunk being processed receives
\* an error.
C35_PushErrorsReachCallback ==
  \A i \in 1..Len(hist) : hist[i].failed => hist[i].error # NoError

\* what holds instead: the error of a push is handed on unless the chunk is
\* run through the transformer again afterwards, which is the case for the
\* finalization of a value followed by anything but its packed duplicate
\* and for the release of the key buffer followed by a value token.
C35_PushErrorsReachCallbackUnlessRerun ==
  \A i \in 1..Len(hist) :
    (hist[i].failed /\ hist[i].error = NoError) =>
      \/ /\ i > 1 /\ NonSynthetic(<<input[i]>>) # <<>>
         /\ \E e \in MatchedEntries : e.ve = i - 1
      \/ \E e \in MatchedEntries : e.vs = i

\* a push failed, its error went unreported, and the stream was consumed
\* to its end with tokens missing from the output
C35_ReachedDroppedError ==
  /\ AllConsumed /\ ~PackFailed
  /\ \E i \in 1..Len(hist) : hist[i].failed
  /\ ~cfg.discardComponentTokens
  /\ NonSynthetic(out) # input

-----------------------------------------------------------------------------
(* packEntry given filters of which several match the same entry.          *)

KeyEmpty == <<>>

MatcherValues == {VNull, VObj(<<Entry(KeyA, VNull)>>)}

MatcherDocs ==
  {VObj(<<Entry(k, v)>>) : k \in {KeyEmpty, KeyA, KeyB}, v \in MatcherValues}
  \cup {VObj(<<Entry(KeyA, VNull), Entry(KeyB, VNull)>>),
         VObj(<<Entry(KeyEmpty, VNull), Entry(KeyA, VNull)>>)}

MatcherFilters ==
  {<<RegExpFilter(KeyA, FALSE, TRUE), StringFilter(KeyA)>>,
   <<StringFilter(KeyA), RegExpFilter(KeyA, FALSE, TRUE)>>,
   <<StringFilter(<<"z">>), RegExpFilter(KeyEmpty, FALSE, FALSE), StringFilter(KeyB)>>,
   <<StringFilter(KeyEmpty), RegExpFilter(KeyEmpty, TRUE, TRUE)>>,
   <<RegExpFilter(KeyEmpty, TRUE, TRUE), StringFilter(KeyEmpty)>>}

InitMatcher ==
  /\ \E doc \in MatcherDocs, f \in FlagSets, key \in MatcherFilters,
        discard \in BOOLEAN, sparseMode \in BOOLEAN :
       /\ f.streamNumbers = f.streamStrings /\ f.packNumbers = f.packStrings
       /\ f.streamNumbers /\ f.packNumbers
       /\ cfg = [docs |-> <<doc>>, flags |-> f, key |-> key,
                 discardComponentTokens |-> discard, sparseMode |-> sparseMode,
                 ownerSymbol |-> OwnerA, pathSeparator |-> Dot]
       /\ input = Indexed(tokenizeObject(doc, f))
       /\ ref = Reference(<<doc>>, f, key, Dot)
       /\ packer = NewPacker(sparseMode)
  /\ pos = 0
  /\ out = <<>>
  /\ hist = <<>>
  /\ assembler = Nil
  /\ sieve = Nil /\ stream = Nil /\ inject = Nil /\ select = Nil

SpecMatcher == InitMatcher /\ [][NextPack]_vars

\* the filters that match the key path of entry e, by their place in `key`
MatchingFilters(e) ==
  {i \in 1..Len(cfg.key) : Matches(cfg.key[i], join(e.path, cfg.pathSeparator))}

SeveralMatch(e) == Cardinality(MatchingFilters(e)) >= 2

FirstMatching(e) ==
  CHOOSE i \in MatchingFilters(e) : \A j \in MatchingFilters(e) : i <= j

\* entry e has its one synthetic token (set) and each token of it records
\* the first of the filters that match the entry
FirstMatcherRecorded(e) ==
  /\ ExactlyOneEach(e)
  /\ \A name \in SyntheticNames : \A p \in SyntheticOf(e, name) :
       out[p].matcher = FirstMatching(e)

\* C29 as stated: once the stream has been consumed, an entry whose key path
\* several filters match (and which lies in no other matching entry) has
\* exactly one synthetic token (set), and it records as matcher the first of
\* the matching filters in the order supplied.
C29_FirstMatcherRecorded ==
  (AllConsumed /\ ~PackFailed) =>
    \A e \in MatchedEntries : SeveralMatch(e) => FirstMatcherRecorded(e)

\* what holds: the same for the entries whose first matching filter is not
\* the empty string; an entry whose first matching filter is the empty
\* string gets no synthetic token at all
C29_FirstMatcherRecordedUnlessEmpty ==
  (AllConsumed /\ ~PackFailed) =>
    \A e \in MatchedEntries :
      IF IsTruthy(cfg.key, FirstMatching(e))
        THEN FirstMatcherRecorded(e)
        ELSE \A name \in SyntheticNames : SyntheticOf(e, name) = {}

\* an entry matched by two filters carries the first one
C29_ReachedSeveralMatch ==
  /\ AllConsumed /\ ~PackFailed
  /\ \E e \in MatchedEntries :
       /\ SeveralMatch(e) /\ FirstMatching(e) = 2
       /\ FirstMatcherRecorded(e)

-----------------------------------------------------------------------------
(* useStackKeyTracking fed the tokens of one document, whatever is         *)
(* streamed and packed.                                                    *)

TrackerDocs ==
  {VArr(<<VObj(<<Entry(KeyA, VNum(1))>>), VObj(<<Entry(KeyB, VNum(2))>>)>>),
   VArr(<<VStr(<<"x", "x">>), VNum(12), VNull, VStr(<<>>)>>),
   VArr(<<VArr(<<>>), VArr(<<VNum(12), VNum(12)>>), VObj(<<>>), VTrue>>),
   VObj(<<Entry(KeyA, VArr(<<VNum(12), VStr(<<"x">>)>>)),
          Entry(KeyB, VObj(<<Entry(KeyA, VFalse)>>))>>),
   VObj(<<Entry(KeyEmpty, VStr(<<>>)), Entry(KeyA, VNum(12))>>),
   VNum(12),
   VStr(<<"x", "x">>)}

\* the stack after each token of value v, which sits at key path `path`:
\* the path itself for the tokens of a primitive and for the end of a
\* container; inside an array the index of the element under way (-1 before
\* the first); inside an object the key of the entry under way (null before
\* the first key is complete, the previous key while the next one streams)
RECURSIVE PathsOf(_, _, _)
PathsOf(v, f, path) ==
  IF v.t = "array"
    THEN <<Append(path, PIndex(-1))>>
         \o Flatten([i \in 1..Len(v.e) |->
                       PathsOf(v.e[i], f, Append(path, PIndex(i - 1)))])
         \o <<path>>
  ELSE IF v.t = "object"
    THEN <<Append(path, PNull)>>
         \o Flatten([i \in 1..Len(v.e) |->
              LET keyTokens == Primitive("Key", v.e[i].k, f.streamKeys, f.packKeys)
                  before == IF i = 1 THEN PNull ELSE PKey(v.e[i - 1].k)
              IN [j \in 1..Len(keyTokens) |->
                    IF keyTokens[j].name \in {"endKey", "keyValue"}
                      THEN Append(path, PKey(v.e[i].k))
                      ELSE Append(path, before)]
                 \o PathsOf(v.e[i].v, f, Append(path, PKey(v.e[i].k)))])
         \o <<path>>
  ELSE [i \in 1..Len(tokenizeObject(v, f)) |-> path]

InitTracker ==
  /\ \E doc \in TrackerDocs, f \in FlagSets :
       /\ cfg = [docs |-> <<doc>>, flags |-> f]
       /\ input = Indexed(tokenizeObject(doc, f))
       /\ ref = [stacks |-> PathsOf(doc, f, <<>>)]
  /\ packer = [tracker |-> NewTracker]
  /\ pos = 0
  /\ out = <<>>
  /\ hist = <<>>
  /\ assembler = Nil
  /\ sieve = Nil /\ stream = Nil /\ inject = Nil /\ select = Nil

\* updateStack(chunk), then getStack()
TrackChunk ==
  /\ pos < Len(input)
  /\ packer' = [tracker |-> updateStack(packer.tracker, input[pos + 1])]
  /\ hist' = Append(hist, packer'.tracker.stack)
  /\ pos' = pos + 1
  /\ UNCHANGED <<input, cfg, assembler, sieve, stream, inject, select, out, ref>>

NextTracker == TrackChunk

SpecTracker == InitTracker /\ [][NextTracker]_vars

\* the stacks of a run, each stretch of equal ones taken once
RECURSIVE Distinct(_)
Distinct(stacks) ==
  IF Len(stacks) <= 1 THEN stacks
  ELSE IF stacks[1] = stacks[2] THEN Distinct(Tail(stacks))
  ELSE <<stacks[1]>> \o Distinct(Tail(stacks))

\* C30: after each token the stack is the key path of the value being
\* evaluated - keys and zero-based array indices from the root, -1 and null
\* in a container none of whose children has been reached - whichever of
\* keys, strings and numbers are streamed, packed or both; an index
\* advances once per element.
C30_StackIsKeyPath ==
  /\ Len(hist) = pos
  /\ Len(ref.stacks) = Len(input)
  /\ \A i \in 1..pos : hist[i] = ref.stacks[i]

\* C30 witness: [{a: 1}, {bc: 2}] with everything streamed and packed went
\* through the stacks [-1], [0,null], [0,'a'], [0], [1,null], [1,'bc'], [1], [].
C30_Witness ==
  /\ cfg.docs[1] = VArr(<<VObj(<<Entry(KeyA, VNum(1))>>), VObj(<<Entry(KeyB, VNum(2))>>)>>)
  /\ \A flag \in DOMAIN cfg.flags : cfg.flags[flag]
  /\ pos = Len(input)
  /\ Distinct(hist) = <<<<PIndex(-1)>>,
                         <<PIndex(0), PNull>>, <<PIndex(0), PKey(KeyA)>>, <<PIndex(0)>>,
                         <<PIndex(1), PNull>>, <<PIndex(1), PKey(KeyB)>>, <<PIndex(1)>>,
                         <<>>>>
  /\ input[Len(input) - 2].name = "numberValue"
  /\ input[Len(input) - 3].name = "endNumber"

-----------------------------------------------------------------------------
(* omitEntry: a sparse, discarding packEntry chained to a filter function. *)

\* faulty variant: every chunk is forwarded, the sparse tokens included
omitFilterKeepsAll(chunk, ownerSymbol) == <<chunk>>

\* the chained function: null (nothing forwarded) for the tokens we own
omitFilter(chunk, ownerSymbol) ==
  IF IsSynthetic(chunk) /\ chunk.owner = ownerSymbol THEN <<>> ELSE <<chunk>>

OwnerOmit == "owner-symbol"

InitOmit ==
  /\ \E doc \in PackDocs, f \in FlagSets, key \in PackFilters :
       /\ f.streamNumbers = f.streamStrings /\ f.packNumbers = f.packStrings
       /\ cfg = [docs |-> <<doc>>, flags |-> f, key |-> key,
                 discardComponentTokens |-> TRUE, sparseMode |-> TRUE,
                 ownerSymbol |-> OwnerOmit, pathSeparator |-> Dot]
       /\ input = Indexed(tokenizeObject(doc, f))
       /\ ref = Reference(<<doc>>, f, key, Dot)
  /\ packer = NewPacker(TRUE)
  /\ pos = 0
  /\ out = <<>>
  /\ hist = <<>>
  /\ assembler = Nil
  /\ sieve = Nil /\ stream = Nil /\ inject = Nil /\ select = Nil

\* upstream writes the next token: packEntry handles it and each token it
\* pushes goes through the chained function
OmitChunk ==
  /\ pos < Len(input)
  /\ \A i \in 1..Len(hist) : hist[i].error = NoError
  /\ LET r == packTransform(packer, input[pos + 1], cfg)
     IN /\ packer' = r.state
        /\ out' = out \o Flatten([i \in 1..Len(r.pushed) |->
                                    omitFilter(r.pushed[i], cfg.ownerSymbol)])
        /\ hist' = Append(hist, [error |-> r.error, pushed |-> Len(r.pushed)])
  /\ pos' = pos + 1
  /\ UNCHANGED <<input, cfg, assembler, sieve, stream, inject, select, ref>>

NextOmit == OmitChunk

SpecOmit == InitOmit /\ [][NextOmit]_vars

\* C6: the output of omitEntry holds no key token and no value token of any
\* entry whose key path matches the filter, and it holds every other token
\* exactly once and in the original order, whatever form keys and values
\* take (streamed, packed, or both).
C6_OmitEntryCompleteness ==
  /\ \A q \in 1..Len(out) :
       /\ ~IsSynthetic(out[q])
       /\ \A e \in ref.matching : ~(e.ks <= out[q].at /\ out[q].at <= e.ve)
  /\ IsPrefix(out, Unmatched(pos))
  /\ \A i \in 1..Len(hist) : hist[i].error = NoError
  /\ AllConsumed => out = Unmatched(Len(input))

\* C6 witness: a document with streamed-and-packed keys and strings, holding
\* a matching entry with a string value and a non-matching entry after it,
\* has gone through omitEntry.
C6_Witness ==
  /\ AllConsumed
  /\ cfg.flags.streamKeys /\ cfg.flags.packKeys
  /\ cfg.flags.streamStrings /\ cfg.flags.packStrings
  /\ \E e \in MatchedEntries :
       /\ e.value.t = "string" /\ e.value.s # <<>>
       /\ \E other \in AllEntries : ~InMatchedEntry(other.ks) /\ other.ks > e.ve
  /\ out = Unmatched(Len(input))
  /\ Len(out) < Len(input)

-----------------------------------------------------------------------------
(* lodash.ismatch: partial, unordered deep comparison.                     *)

IsObjectLike(v) == v.t \in {"object", "array"}

\* the own enumerable property names of an object or an array, in order
PropertyNames(v) ==
  IF v.t = "object" THEN [i \in 1..Len(v.e) |-> v.e[i].k]
  ELSE [i \in 1..Len(v.e) |-> FormatNumber(i - 1)]

\* key in v
HasProperty(v, key) == \E i \in 1..Len(v.e) : PropertyNames(v)[i] = key

\* v[key]
GetProperty(v, key) ==
  LET i == CHOOSE j \in 1..Len(v.e) : PropertyNames(v)[j] = key
  IN IF v.t = "object" THEN v.e[i].v ELSE v.e[i]

\* a === b: assembled objects and arrays are never identical to a filter's
StrictEquals(a, b) == ~IsObjectLike(a) /\ a = b

RECURSIVE baseIsEqual(_, _)
RECURSIVE equalArrays(_, _, _, _)

\* every property of `object` is in `other` with a partially equal value
equalObjects(object, other) ==
  \A i \in 1..Len(object.e) :
    LET key == PropertyNames(object)[i]
    IN HasProperty(other, key)
       /\ baseIsEqual(GetProperty(object, key), GetProperty(other, key))

\* each element of `array`, from index i on, equals an element of `other`
\* that no earlier element was paired with (the first such one is taken)
equalArrays(array, other, i, seen) ==
  IF i > Len(array) THEN TRUE
  ELSE LET free == {j \in 1..Len(other) : j \notin seen /\ baseIsEqual(array[i], other[j])}
       IN /\ free # {}
          /\ equalArrays(array, other, i + 1,
                         seen \cup {CHOOSE j \in free : \A k \in free : j <= k})

baseIsEqual(value, other) ==
  IF ~IsObjectLike(value) \/ ~IsObjectLike(other) THEN value = other
  ELSE IF value.t # other.t THEN FALSE
  ELSE IF value.t = "array"
    THEN Len(value.e) <= Len(other.e) /\ equalArrays(value.e, other.e, 1, {})
  ELSE equalObjects(value, other)

\* isMatch(object, source): every property of source is found in object
isDeepSubset(object, source) ==
  \A i \in 1..Len(source.e) :
    LET key == PropertyNames(source)[i]
        srcValue == GetProperty(source, key)
    IN HasProperty(object, key)
       /\ IF IsObjectLike(srcValue)
            THEN baseIsEqual(srcValue, GetProperty(object, key))
            ELSE GetProperty(object, key) = srcValue

-----------------------------------------------------------------------------
(* objectSieve: packEntry chained to the sieving transformer.              *)

\* a value filter is a JSON value or a predicate, given by the values it accepts
ValueFilter(v) == [kind |-> "value", v |-> v]
SieveFunction(accepts) == [kind |-> "function", accepts |-> accepts]

NewSieve ==
  [depth |-> 0, tokenBuffer |-> <<>>, isDiscarding |-> FALSE, isReleasing |-> TRUE]

\* faulty variant: arrays are not counted
updateDepthOfObjects(depth, tok) ==
  CASE tok.name = "startObject" -> depth + 1
    [] tok.name = "endObject" -> depth - 1
    [] OTHER -> depth

updateDepth(depth, tok) ==
  CASE tok.name \in {"startObject", "startArray"} -> depth + 1
    [] tok.name \in {"endObject", "endArray"} -> depth - 1
    [] OTHER -> depth

isOwnPackedEntry(chunk, c) ==
  chunk.name = "packedEntry" /\ chunk.owner = c.ownerSymbol

isEndOfRootObject(depth, chunk) == depth = 0 /\ chunk.name = "endObject"

\* chunk.value === filter || filter(chunk.value) || isDeepSubset(chunk.value, filter)
passesValueFilter(entryValueFilter, value) ==
  \/ entryValueFilter.kind = "value" /\ StrictEquals(value, entryValueFilter.v)
  \/ entryValueFilter.kind = "function" /\ value \in entryValueFilter.accepts
  \/ /\ entryValueFilter.kind = "value"
     /\ IsObjectLike(value) /\ IsObjectLike(entryValueFilter.v)
     /\ isDeepSubset(value, entryValueFilter.v)

\* faulty variant: the last filter with the matcher's key is consulted
decideByLastFilter(sv, chunk, c) ==
  LET found == {j \in 1..Len(c.filter) : c.filter[j].key = c.key[chunk.matcher]}
  IN IF found = {} THEN sv
     ELSE LET entryFilter == c.filter[CHOOSE j \in found : \A k \in found : k <= j]
          IN IF passesValueFilter(entryFilter.value, chunk.value)
               THEN [sv EXCEPT !.isReleasing = TRUE]
             ELSE IF Len(c.filter) = 1 /\ ~c.filter[1].key.regexp
               THEN [sv EXCEPT !.isDiscarding = TRUE]
             ELSE sv

\* faulty variant: a lone string-keyed filter discards before the value is
\* looked at
decideDiscardsFirst(sv, chunk, c) ==
  LET found == {j \in 1..Len(c.filter) : c.filter[j].key = c.key[chunk.matcher]}
  IN IF found = {} THEN sv
     ELSE LET entryFilter == c.filter[CHOOSE j \in found : \A k \in found : j <= k]
          IN IF Len(c.filter) = 1 /\ ~c.filter[1].key.regexp
               THEN [sv EXCEPT !.isDiscarding = TRUE]
             ELSE IF passesValueFilter(entryFilter.value, chunk.value)
               THEN [sv EXCEPT !.isReleasing = TRUE]
             ELSE sv

\* the decision attempted on a packedEntry of our own while undecided
decide(sv, chunk, c) ==
  LET found == {j \in 1..Len(c.filter) : c.filter[j].key = c.key[chunk.matcher]}
  IN IF found = {} THEN sv
     ELSE LET entryFilter == c.filter[CHOOSE j \in found : \A k \in found : j <= k]
          IN IF passesValueFilter(entryFilter.value, chunk.value)
               THEN [sv EXCEPT !.isReleasing = TRUE]
             ELSE IF Len(c.filter) = 1 /\ ~c.filter[1].key.regexp
               THEN [sv EXCEPT !.isDiscarding = TRUE]
             ELSE sv

\* faulty variant: the buffer is left as it is
discardBufferKeeps(sv) == sv

discardBuffer(sv) == [sv EXCEPT !.tokenBuffer = <<>>]

\* finish(null): decide or buffer while undecided, reset at the end of a root
finish(sv, chunk, c) ==
  LET decided ==
        IF ~sv.isDiscarding /\ ~sv.isReleasing
          THEN IF isOwnPackedEntry(chunk, c) THEN decide(sv, chunk, c)
               ELSE [sv EXCEPT !.tokenBuffer = Append(@, chunk)]
          ELSE sv
  IN IF isEndOfRootObject(sv.depth, chunk)
       THEN [decided EXCEPT !.isDiscarding = FALSE, !.isReleasing = TRUE]
       ELSE decided

\* transform(chunk): the state afterwards, the tokens pushed, the branch taken
sieveTransform(sv, chunk, c) ==
  LET depth == updateDepth(sv.depth, chunk)
      isStartOfRootObject == depth = 1 /\ chunk.name = "startObject"
      undecidedAtEnd ==
        ~sv.isDiscarding /\ ~sv.isReleasing /\ isEndOfRootObject(depth, chunk)
      entered ==
        [sv EXCEPT !.depth = depth,
                   !.isDiscarding = IF isStartOfRootObject THEN FALSE
                                    ELSE IF undecidedAtEnd THEN TRUE ELSE @,
                   !.isReleasing = IF isStartOfRootObject THEN FALSE ELSE @]
  IN IF entered.isDiscarding
       THEN [state |-> finish(discardBuffer(entered), chunk, c),
             pushed |-> <<>>, branch |-> "discarding"]
     ELSE IF entered.isReleasing
       THEN LET tokenBuffer == IF isOwnPackedEntry(chunk, c) THEN entered.tokenBuffer
                               ELSE Append(entered.tokenBuffer, chunk)
            IN [state |-> finish(discardBuffer(entered), chunk, c),
                pushed |-> tokenBuffer, branch |-> "releasing"]
     ELSE [state |-> finish(entered, chunk, c),
           pushed |-> <<>>, branch |-> "undecided"]

\* the chunks packEntry pushed for one upstream token, sieved one after another
RECURSIVE sieveAll(_, _, _)
sieveAll(sv, chunks, c) ==
  IF chunks = <<>> THEN [state |-> sv, pushed |-> <<>>, branches |-> <<>>]
  ELSE LET r == sieveTransform(sv, Head(chunks), c)
           rest == sieveAll(r.state, Tail(chunks), c)
       IN [state |-> rest.state, pushed |-> r.pushed \o rest.pushed,
           branches |-> <<r.branch>> \o rest.branches]

\* where the root values of a stream lie: input[s..e] holds the i-th of them
RECURSIVE RootRanges(_, _, _)
RootRanges(docs, f, offset) ==
  IF docs = <<>> THEN {}
  ELSE LET n == Len(tokenizeObject(Head(docs), f))
       IN {[s |-> offset + 1, e |-> offset + n, value |-> Head(docs)]}
          \cup RootRanges(Tail(docs), f, offset + n)

SieveValues ==
  {VNull, VStr(<<"x", "x">>), VObj(<<Entry(KeyA, VStr(<<"x">>))>>),
   VArr(<<VNull, VStr(<<"x">>)>>)}

SieveFirstRoots ==
  {VObj(es) : es \in EntryLists(SieveValues, MaxElems)}
  \cup {VArr(<<VObj(<<Entry(KeyB, VNull)>>)>>), VStr(<<"x", "x">>),
        VNum(12), VTrue, VNull,
        VObj(<<Entry(KeyA, VNull), Entry(KeyA, VStr(<<"x", "x">>))>>)}

SieveSecondRoots ==
  {VObj(<<Entry(KeyA, VStr(<<"x", "x">>))>>),
   VObj(<<Entry(KeyB, VArr(<<VNull, VStr(<<"x">>)>>))>>),
   VArr(<<VObj(<<Entry(KeyB, VObj(<<>>))>>)>>)}

SieveFilters ==
  {<<[key |-> StringFilter(KeyA), value |-> ValueFilter(VStr(<<"x", "x">>))]>>,
   <<[key |-> StringFilter(KeyA), value |-> SieveFunction({VNull})],
     [key |-> StringFilter(KeyB), value |-> ValueFilter(VArr(<<VNull>>))]>>,
   <<[key |-> RegExpFilter(KeyB, FALSE, TRUE), value |-> ValueFilter(VObj(<<>>))]>>,
   <<[key |-> StringFilter(KeyA), value |-> ValueFilter(VNull)],
     [key |-> StringFilter(KeyA), value |-> ValueFilter(VStr(<<"x", "x">>))]>>,
   <<[key |-> StringFilter(<<"z">>), value |-> ValueFilter(VNull)]>>,
   <<[key |-> RegExpFilter(KeyA, FALSE, TRUE), value |-> ValueFilter(VStr(<<"x">>))]>>}

OwnerSieve == "owner"

InitSieve ==
  /\ \E first \in SieveFirstRoots, second \in SieveSecondRoots,
        f \in FlagSets, filter \in SieveFilters :
       LET docs == <<first, second>>
           key == [i \in 1..Len(filter) |-> filter[i].key]
       IN /\ f.streamNumbers = f.streamStrings /\ f.packNumbers = f.packStrings
          /\ cfg = [docs |-> docs, flags |-> f, filter |-> filter, key |-> key,
                    discardComponentTokens |-> FALSE, sparseMode |-> FALSE,
                    ownerSymbol |-> OwnerSieve, pathSeparator |-> Dot]
          /\ input = Indexed(tokenizeAll(docs, f))
          /\ ref = [roots |-> RootRanges(docs, f, 0)]
                   @@ Reference(docs, f, key, Dot)
  /\ packer = NewPacker(FALSE)
  /\ sieve = NewSieve
  /\ pos = 0
  /\ out = <<>>
  /\ hist = <<>>
  /\ assembler = Nil /\ stream = Nil /\ inject = Nil /\ select = Nil

\* upstream writes the next token: packEntry handles it and every token it
\* pushes is handled by the sieving transformer
SieveChunk ==
  /\ pos < Len(input)
  /\ \A i \in 1..Len(hist) : hist[i].error = NoError
  /\ LET packed == packTransform(packer, input[pos + 1], cfg)
         sieved == sieveAll(sieve, packed.pushed, cfg)
     IN /\ packer' = packed.state
        /\ sieve' = sieved.state
        /\ out' = out \o sieved.pushed
        /\ hist' = Append(hist, [error |-> packed.error,
                                 pushed |-> Len(sieved.pushed),
                                 branches |-> sieved.branches])
  /\ pos' = pos + 1
  /\ UNCHANGED <<input, cfg, assembler, stream, inject, select, ref>>

NextSieve == SieveChunk

SpecSieve == InitSieve /\ [][NextSieve]_vars

-----------------------------------------------------------------------------
(* objectSieve: all or nothing of every root object.                       *)

ObjectRoots == {r \in ref.roots : r.value.t = "object"}

\* the branch the sieve took on the endObject of root object r
Decision(r) ==
  IF hist[r.e].branches = <<>> THEN "none" ELSE Last(hist[r.e].branches)

\* the output tokens that stem from root r
TokensOf(r) ==
  SelectIdx(out, [q \in 1..Len(out) |->
                    ~IsSynthetic(out[q]) /\ r.s <= out[q].at /\ out[q].at <= r.e], 1)

\* C5: of a discarded root object no token from startObject through
\* endObject is output; of a released root object exactly the original
\* tokens are output, each once and in the original order; and no
\* packedEntry of the inner packEntry is output.
C5_SieveAllOrNothing ==
  /\ \A q \in 1..Len(out) : ~IsSynthetic(out[q])
  /\ \A q, q2 \in 1..Len(out) : q < q2 => out[q].at < out[q2].at
  /\ \A r \in ObjectRoots :
       IF pos >= r.e
         THEN /\ Decision(r) \in {"discarding", "releasing"}
              /\ Decision(r) = "discarding" => TokensOf(r) = <<>>
              /\ Decision(r) = "releasing" => TokensOf(r) = SubSeq(input, r.s, r.e)
         ELSE IsPrefix(TokensOf(r), SubSeq(input, r.s, r.e))

\* C5 witness: of two root objects with a matching key, the first was
\* discarded after tokens of it had been buffered and the second released.
C5_Witness ==
  /\ AllConsumed /\ Len(cfg.filter) > 1
  /\ \E r1, r2 \in ObjectRoots :
       /\ r1.e < r2.s
       /\ Len(r1.value.e) = 2
       /\ \E e \in ref.matching : r1.s < e.ks /\ e.ve < r1.e
       /\ Decision(r1) = "discarding" /\ TokensOf(r1) = <<>>
       /\ Decision(r2) = "releasing" /\ TokensOf(r2) = SubSeq(input, r2.s, r2.e)
       /\ out = SubSeq(input, r2.s, r2.e)

\* the entries of root object r, at any depth
EntriesOf(r) == {e \in ref.entries : r.s < e.ks /\ e.ve < r.e}

\* the first of the filters, in the order supplied, whose key matches e
FirstFilterFor(e) ==
  LET found == {j \in 1..Len(cfg.filter) :
                  Matches(cfg.filter[j].key, join(e.path, cfg.pathSeparator))}
  IN IF found = {} THEN 0 ELSE CHOOSE j \in found : \A k \in found : j <= k

Satisfies(e) ==
  /\ FirstFilterFor(e) # 0
  /\ passesValueFilter(cfg.filter[FirstFilterFor(e)].value, e.value)

\* C22 as stated: a root object is passed on if and only if one of its
\* entries has a key path matched by a filter key and a value that satisfies
\* the value matcher of the first filter whose key matches the entry; every
\* other root object is discarded.
C22_PassIffEntrySatisfies ==
  \A r \in ObjectRoots :
    pos >= r.e =>
      /\ Decision(r) \in {"discarding", "releasing"}
      /\ Decision(r) = "releasing" <=> \E e \in EntriesOf(r) : Satisfies(e)

\* the entries of r that packEntry packs: those matching a filter key that
\* do not lie inside the value of another matching entry
SieveEntriesOf(r) == EntriesOf(r) \cap ref.matched

\* a lone filter with a string key discards on the first entry that fails
DiscardsEarly == Len(cfg.filter) = 1 /\ ~cfg.filter[1].key.regexp

\* C22, amended: only entries outside the value of another matching entry
\* are considered, and under a lone string-keyed filter no such entry before
\* the satisfying one may have failed.
C22_PassIffPackedEntrySatisfies ==
  \A r \in ObjectRoots :
    pos >= r.e =>
      /\ Decision(r) \in {"discarding", "releasing"}
      /\ Decision(r) = "releasing" <=>
           \E e \in SieveEntriesOf(r) :
             /\ Satisfies(e)
             /\ DiscardsEarly =>
                  \A d \in SieveEntriesOf(r) : d.ve < e.ks => Satisfies(d)

\* C22 witness: the first root object had a matching entry, stayed undecided
\* up to its endObject and was discarded there; the second was released on
\* the second of its filters.
C22_Witness ==
  /\ AllConsumed
  /\ \E r1, r2 \in ObjectRoots :
       /\ r1.e < r2.s
       /\ SieveEntriesOf(r1) # {}
       /\ ~DiscardsEarly
       /\ hist[r1.e - 1].branches # <<>>
       /\ Last(hist[r1.e - 1].branches) = "undecided"
       /\ Decision(r1) = "discarding"
       /\ \E e \in SieveEntriesOf(r2) : Satisfies(e) /\ FirstFilterFor(e) = 2
       /\ Decision(r2) = "releasing"
       /\ out = SubSeq(input, r2.s, r2.e)

OtherRoots == ref.roots \ ObjectRoots

\* C23: every token of a root value that is not an object is output as it
\* came, once and in its place, and all of them are out when the value has
\* been handled, whatever the filter and whatever the array holds.
C23_NonObjectRootsPassThrough ==
  \A r \in OtherRoots :
    /\ IsPrefix(TokensOf(r), SubSeq(input, r.s, r.e))
    /\ pos >= r.e => TokensOf(r) = SubSeq(input, r.s, r.e)
    /\ \A q \in 1..Len(out) :
         (r.s <= out[q].at /\ out[q].at <= r.e) => out[q] = input[out[q].at]

\* C23 witness: a root array holding an object with an entry a filter key
\* matches went through whole, after a root object had been discarded.
C23_Witness ==
  /\ AllConsumed
  /\ \E r1 \in ObjectRoots, r2 \in OtherRoots :
       /\ r1.e < r2.s
       /\ Decision(r1) = "discarding"
       /\ r2.value.t = "array"
       /\ \E e \in ref.matching : r2.s < e.ks /\ e.ve < r2.e
       /\ out = SubSeq(input, r2.s, r2.e)

-----------------------------------------------------------------------------
(* objectSieve: when the buffer of a released root object goes downstream. *)

\* the chunks packEntry hands the sieving transformer for the next token
NextPacked ==
  IF pos < Len(input) /\ (\A i \in 1..Len(hist) : hist[i].error = NoError)
    THEN packTransform(packer, input[pos + 1], cfg).pushed
    ELSE <<>>

\* the sieving transformer as the k-th of these chunks reaches it
SieveAt(k) == sieveAll(sieve, SubSeq(NextPacked, 1, k - 1), cfg).state

\* the value of a packedEntry satisfies the first filter with its matcher's key
PackedSatisfies(chunk) ==
  LET found == {j \in 1..Len(cfg.filter) : cfg.filter[j].key = cfg.key[chunk.matcher]}
  IN /\ found # {}
     /\ passesValueFilter(cfg.filter[CHOOSE j \in found : \A k \in found : j <= k].value,
                          chunk.value)

\* the k-th chunk is a packedEntry of the sieve's own that satisfies the
\* filter and reaches the transformer while the root object is undecided
Satisfying(k) ==
  /\ isOwnPackedEntry(NextPacked[k], cfg)
  /\ ~SieveAt(k).isDiscarding /\ ~SieveAt(k).isReleasing
  /\ PackedSatisfies(NextPacked[k])

\* the sieving transformer took `branch` on a chunk of the i-th upstream token
Took(i, branch) ==
  \E b \in 1..Len(hist[i].branches) : hist[i].branches[b] = branch

\* the root object the sieve is in the middle of
CurrentRoots == {r \in ObjectRoots : r.s <= pos /\ pos < r.e}

\* C34 as stated: once a packedEntry of the sieve's own whose value
\* satisfies the filter has been processed, and before a further upstream
\* token is consumed, the tokens buffered for the root object are out, and
\* so is every later token of the object once it has been consumed.
C34_FlushedBeforeFurtherToken ==
  \A r \in CurrentRoots :
    sieve.isReleasing =>
      /\ sieve.tokenBuffer = <<>>
      /\ TokensOf(r) \o packer.keyTokenBuffer = SubSeq(input, r.s, pos)

\* C34, the same seen from the sieving transformer: the call that handles
\* the satisfying packedEntry pushes the buffer.
C34_FlushedWithPackedEntry ==
  \A k \in 1..Len(NextPacked) :
    Satisfying(k) =>
      sieveTransform(SieveAt(k), NextPacked[k], cfg).pushed = SieveAt(k).tokenBuffer

\* what the code does instead: the satisfying packedEntry marks the root
\* object as released and leaves the buffer as it is; the buffer goes out
\* with the next chunk that reaches the sieving transformer, and no token of
\* the root object is lost or out of place meanwhile.
C34_FlushedWithNextChunk ==
  /\ \A k \in 1..Len(NextPacked) :
       Satisfying(k) =>
         /\ sieveTransform(SieveAt(k), NextPacked[k], cfg).pushed = <<>>
         /\ SieveAt(k + 1).isReleasing
         /\ SieveAt(k + 1).tokenBuffer = SieveAt(k).tokenBuffer
         /\ k < Len(NextPacked) =>
              sieveTransform(SieveAt(k + 1), NextPacked[k + 1], cfg).pushed
                = Append(SieveAt(k).tokenBuffer, NextPacked[k + 1])
  /\ \A r \in CurrentRoots :
       sieve.isReleasing =>
         TokensOf(r) \o sieve.tokenBuffer \o packer.keyTokenBuffer
           = SubSeq(input, r.s, pos)

\* the satisfying packedEntry is about to reach the sieving transformer on
\* its own, with tokens of the root object buffered
C34_ReachedSatisfying ==
  \E k \in 1..Len(NextPacked) :
    /\ Satisfying(k) /\ k = Len(NextPacked)
    /\ Len(SieveAt(k).tokenBuffer) > 3

-----------------------------------------------------------------------------
(* objectSieve: the two flags and the token buffer between chunks.         *)

\* the states of the sieving transformer between two chunks: the one after
\* the last upstream token and those amid the chunks of the next one
BetweenChunks == {SieveAt(k) : k \in 1..(Len(NextPacked) + 1)}

\* the last upstream token was handled without an error
Handled == pos > 0 /\ hist[pos].error = NoError

\* the root object is decided and tokens are still buffered
DecidedWithBuffer(sv) ==
  (sv.isDiscarding \/ sv.isReleasing) /\ sv.tokenBuffer # <<>>

C40_FlagsExclusive ==
  \A sv \in BetweenChunks : ~(sv.isDiscarding /\ sv.isReleasing)

C40_ReleasingAfterRootEnd ==
  \A r \in ObjectRoots :
    (pos = r.e /\ Handled) =>
      /\ sieve.isReleasing /\ ~sieve.isDiscarding
      /\ sieve.tokenBuffer = <<>>

C40_BufferEmptyWhileDecided ==
  \A sv \in BetweenChunks : ~DecidedWithBuffer(sv)

\* C40 as stated: isDiscarding and isReleasing are never both true; after
\* the endObject of a root object the sieve is releasing with an empty token
\* buffer; and whenever a chunk has been processed while a root object is
\* being discarded or released, the token buffer is empty.
C40_FlagsAndBuffer ==
  /\ C40_FlagsExclusive
  /\ C40_ReleasingAfterRootEnd
  /\ C40_BufferEmptyWhileDecided

\* what the code keeps instead: the flags exclude each other, the sieve is
\* releasing with an empty buffer after the endObject of a root object, and
\* a decided root object has tokens buffered only between the packedEntry
\* that decided it and the next chunk to reach the sieve, which empties the
\* buffer.
C40_BufferEmptyAfterNextChunk ==
  /\ C40_FlagsExclusive
  /\ C40_ReleasingAfterRootEnd
  /\ \A k \in 1..Len(NextPacked) :
       LET after == sieveTransform(SieveAt(k), NextPacked[k], cfg)
       IN /\ DecidedWithBuffer(after.state) =>
               /\ isOwnPackedEntry(NextPacked[k], cfg)
               /\ after.branch = "undecided"
               /\ after.state.tokenBuffer = SieveAt(k).tokenBuffer
          /\ DecidedWithBuffer(SieveAt(k)) => after.state.tokenBuffer = <<>>
  /\ DecidedWithBuffer(sieve) =>
       \E i \in 1..pos :
         /\ hist[i].branches # <<>>
         /\ hist[i].branches[Len(hist[i].branches)] = "undecided"
         /\ \A j \in (i + 1)..pos : hist[j].branches = <<>>

\* the sieve has begun to discard a root object and still holds its tokens
C40_ReachedDiscardingWithBuffer ==
  /\ sieve.isDiscarding /\ ~sieve.isReleasing
  /\ Len(sieve.tokenBuffer) > 2
  /\ CurrentRoots # {}

-----------------------------------------------------------------------------
(* objectSieve: discarding at once against deciding at the endObject.      *)

\* objectSieve over a whole token stream: what it outputs
RECURSIVE sieveRun(_, _, _, _)
sieveRun(pk, sv, toks, c) ==
  IF toks = <<>> THEN <<>>
  ELSE LET packed == packTransform(pk, Head(toks), c)
           sieved == sieveAll(sv, packed.pushed, c)
       IN IF packed.error # NoError THEN sieved.pushed
          ELSE sieved.pushed \o sieveRun(packed.state, sieved.state, Tail(toks), c)

\* the same filter given twice: the list is no longer a lone filter, so a
\* failing entry leaves the root object undecided until its endObject
Deferring(c) == [c EXCEPT !.filter = @ \o @, !.key = @ \o @]

DeferredOutput == sieveRun(NewPacker(FALSE), NewSieve, input, Deferring(cfg))

OneJudgedEntryPerRoot ==
  \A r \in ObjectRoots : Cardinality(SieveEntriesOf(r)) <= 1

-----------------------------------------------------------------------------
(* InflationStream: a Transform with pushMany and a 'flow' event.  The     *)
(* transform under study hands every upstream chunk to                     *)
(* pushMany(producer, (error) => callback(error)).  A producer is a script *)
(* of steps: each step yields a chunk or throws (rejects, if asynchronous).*)

Yield(k) == [t |-> "chunk", k |-> k]
Throw == [t |-> "throw"]

NoId == 0

NewStream(highWaterMark, flowing) ==
  [highWaterMark |-> highWaterMark,
   buffer |-> <<>>,          \* readable side: chunks pushed and not yet read
   reading |-> FALSE,        \* readable side: _read was called, no push since
   flowing |-> flowing,      \* readable side: the consumer is in flowing mode
   writing |-> FALSE,        \* writable side: a _write is under way
   writeLength |-> 0,        \* readable length when that _write began
   buffered |-> <<>>,        \* writable side: chunks written meanwhile
   bufferProcessing |-> FALSE,   \* writable side: those chunks are being written
   kCallback |-> FALSE,      \* Transform: a _write callback parked until _read
   iterator |-> [id |-> NoId, rest |-> <<>>],   \* pushMany's chunk iterator
   waiting |-> FALSE,        \* pushMany registered once('flow', ...)
   listeners |-> 0,          \* once('flow', ...) listeners registered
   resumed |-> 0,            \* listeners the last 'flow' event invoked
   awaiting |-> FALSE,       \* pushMany awaits the promise of iterator.next()
   delivered |-> <<>>,       \* chunks the consumer received
   callbacks |-> <<>>,       \* invocations of pushMany callbacks
   refused |-> FALSE,        \* the last push returned false, no 'flow' since
   early |-> FALSE,          \* a chunk was pushed while refused
   escaped |-> <<>>,         \* producer errors thrown out of pushMany
   destroyed |-> FALSE]

\* readable.push(chunk): handed to a flowing consumer at once if nothing is
\* buffered and we are not inside _read, buffered otherwise; a consumer that
\* is a pipe into a full writable pauses the stream on every chunk it gets
push(w, chunk, sync, c) ==
  LET pushed ==
        IF w.flowing /\ w.buffer = <<>> /\ ~sync
          THEN [w EXCEPT !.reading = FALSE, !.delivered = Append(@, chunk),
                         !.flowing = (c.consumer # "pipe")]
          ELSE [w EXCEPT !.reading = FALSE, !.buffer = Append(@, chunk)]
  IN [pushed EXCEPT !.early = @ \/ w.refused,
                    !.refused = ~(\/ Len(pushed.buffer) < w.highWaterMark
                                  \/ pushed.buffer = <<>>)]

\* what push returned: state.length < highWaterMark || state.length === 0
pushReturned(w) == Len(w.buffer) < w.highWaterMark \/ w.buffer = <<>>

\* callback(error): the transform's callback errors the stream
failWith(w, of, error) ==
  [w EXCEPT !.callbacks = Append(@, [of |-> of, error |-> error]),
            !.destroyed = TRUE]

\* iterator.next() threw: the innermost enclosing try of a pushMany catches
\* it; if there is none the error leaves pushMany through its caller
throwError(w, catchers) ==
  IF catchers = <<>>
    THEN [w EXCEPT !.escaped = Append(@, w.iterator.id), !.destroyed = TRUE]
    ELSE failWith(w, Last(catchers), w.iterator.id)

RECURSIVE iterateChunks(_, _, _, _)
RECURSIVE processChunk(_, _, _, _)
RECURSIVE onwrite(_, _, _, _)
RECURSIVE clearBuffer(_, _, _, _)

\* Transform.prototype._write followed by transform(chunk) => pushMany(...)
transform(w, id, sync, catchers, c) ==
  iterateChunks([w EXCEPT !.writing = TRUE, !.writeLength = Len(w.buffer),
                          !.iterator = [id |-> id, rest |-> input[id]]],
                sync, catchers, c)

\* callback?.(null): the transform's callback lets the writable side go on
\* unless chunks were added and the readable buffer is full
pushManyCallback(w, sync, catchers, c) ==
  LET called == [w EXCEPT !.callbacks = Append(@, [of |-> w.iterator.id,
                                                   error |-> NoId])]
  IN IF called.writeLength = Len(called.buffer)
        \/ Len(called.buffer) < called.highWaterMark
       THEN onwrite(called, sync, catchers, c)
       ELSE [called EXCEPT !.kCallback = TRUE]

\* the writable side's callback: the buffered chunks are written at once,
\* unless this is the callback of one of them, called while it is written
onwrite(w, sync, catchers, c) ==
  LET done == [w EXCEPT !.writing = FALSE]
  IN IF done.buffered = <<>> \/ done.bufferProcessing THEN done
     ELSE clearBuffer([done EXCEPT !.bufferProcessing = TRUE], sync, catchers, c)

\* the buffered chunks are written one after the other for as long as each
\* one's callback is called before its _write returns
clearBuffer(w, sync, catchers, c) ==
  IF w.buffered = <<>> \/ w.writing \/ w.destroyed
    THEN [w EXCEPT !.bufferProcessing = FALSE]
    ELSE clearBuffer(transform([w EXCEPT !.buffered = Tail(@)], Head(w.buffered),
                               sync, catchers, c),
                     sync, catchers, c)

\* faulty variant: what push returned is ignored
processChunkRegardless(w, sync, catchers, c) ==
  IF w.iterator.rest = <<>> THEN pushManyCallback(w, sync, catchers, c)
  ELSE LET chunk == [id |-> w.iterator.id, k |-> Head(w.iterator.rest).k]
           pushed == push([w EXCEPT !.iterator.rest = Tail(@)], chunk, sync, c)
       IN iterateChunks(pushed, sync, catchers, c)

processChunk(w, sync, catchers, c) ==
  IF w.iterator.rest = <<>> THEN pushManyCallback(w, sync, catchers, c)
  ELSE LET chunk == [id |-> w.iterator.id, k |-> Head(w.iterator.rest).k]
           pushed == push([w EXCEPT !.iterator.rest = Tail(@)], chunk, sync, c)
       IN IF pushReturned(pushed)
            THEN iterateChunks(pushed, sync, catchers, c)
            ELSE [pushed EXCEPT !.waiting = TRUE, !.listeners = @ + 1]

\* iterator.next() is evaluated outside the try that surrounds processChunk
iterateChunks(w, sync, catchers, c) ==
  IF c.producer = "async" THEN [w EXCEPT !.awaiting = TRUE]
  ELSE IF w.iterator.rest # <<>> /\ Head(w.iterator.rest).t = "throw"
    THEN throwError(w, catchers)
  ELSE processChunk(w, sync, Append(catchers, w.iterator.id), c)

\* faulty variant: _read without the 'flow' event
readWithoutFlow(w, c) ==
  IF w.kCallback THEN onwrite([w EXCEPT !.kCallback = FALSE], TRUE, <<>>, c)
  ELSE w

\* faulty variant: a listener registered while 'flow' is being emitted is
\* invoked by that same event
readFlowingAgain(w, c) ==
  LET readableLength == Len(w.buffer)
      emit(s) == IF s.waiting
                   THEN iterateChunks([s EXCEPT !.waiting = FALSE,
                                                !.refused = FALSE,
                                                !.resumed = @ + s.listeners,
                                                !.listeners = 0], TRUE, <<>>, c)
                   ELSE [s EXCEPT !.refused = FALSE]
      flowed == emit(emit([w EXCEPT !.resumed = 0]))
  IN IF flowed.destroyed THEN flowed
     ELSE IF Len(flowed.buffer) <= readableLength /\ flowed.kCallback
       THEN onwrite([flowed EXCEPT !.kCallback = FALSE], TRUE, <<>>, c)
     ELSE flowed

\* _read: emit 'flow', then Transform.prototype._read if nothing was pushed
read(w, c) ==
  LET readableLength == Len(w.buffer)
      flowed == IF w.waiting
                  THEN iterateChunks([w EXCEPT !.waiting = FALSE,
                                               !.refused = FALSE,
                                               !.resumed = w.listeners,
                                               !.listeners = 0], TRUE, <<>>, c)
                  ELSE [w EXCEPT !.refused = FALSE, !.resumed = 0]
  IN IF flowed.destroyed THEN flowed
     ELSE IF Len(flowed.buffer) <= readableLength /\ flowed.kCallback
       THEN onwrite([flowed EXCEPT !.kCallback = FALSE], TRUE, <<>>, c)
     ELSE flowed

-----------------------------------------------------------------------------
(* An InflationStream between an upstream writer and a consumer.           *)

MaxInflate == 3      \* chunks one producer yields
MaxWrites == 2       \* chunks upstream writes

Yields(n) == [k \in 1..n |-> Yield(k)]

\* producers that yield n chunks, and producers that throw after n chunks
Producers ==
  {Yields(n) : n \in 0..MaxInflate}
  \cup {Append(Yields(n), Throw) : n \in 0..(MaxInflate - 1)}

NonThrowing == {p \in Producers : \A j \in 1..Len(p) : p[j].t # "throw"}

HighWaterMarks == {1, 2}

\* a consumer calling read() itself, a pipe into a writable that is full
\* after one chunk, or a 'data' listener that never pauses
Consumers == {"manual", "pipe", "listener"}

\* upstream writes up to MaxWrites chunks; only the last producer may throw
\* (the stream is destroyed then), and those after the first are short
InitInflation ==
  /\ \E n \in 1..MaxWrites, hwm \in HighWaterMarks, consumer \in Consumers,
        producer \in {"sync", "async"}, flowing \in BOOLEAN :
       /\ consumer = "manual" => ~flowing
       /\ input \in [1..n -> Producers]
       /\ \A i \in 1..(n - 1) : input[i] \in NonThrowing
       /\ \A i \in 2..n : Len(input[i]) <= 2
       /\ cfg = [highWaterMark |-> hwm, consumer |-> consumer,
                 producer |-> producer]
       /\ stream = NewStream(hwm, flowing)
  /\ pos = 0
  /\ out = <<>>
  /\ hist = <<>>
  /\ ref = Nil
  /\ assembler = Nil /\ packer = Nil /\ sieve = Nil /\ inject = Nil /\ select = Nil

\* upstream calls write(chunk): transformed at once, or buffered while an
\* earlier chunk is being written
Write ==
  /\ pos < Len(input) /\ ~stream.destroyed
  /\ pos' = pos + 1
  /\ stream' = IF stream.writing
                 THEN [stream EXCEPT !.buffered = Append(@, pos + 1)]
                 ELSE transform(stream, pos + 1, FALSE, <<>>, cfg)
  /\ out' = stream'.delivered
  /\ UNCHANGED <<input, cfg, assembler, packer, sieve, inject, hist, select, ref>>

\* the consumer calls read() (by hand, or as a step of the flowing loop):
\* _read is called if the buffer will be below the mark and no _read is
\* outstanding, then the first buffered chunk is handed over
Read ==
  /\ ~stream.destroyed
  /\ cfg.consumer = "manual" \/ stream.flowing
  /\ stream.buffer # <<>> \/ ~stream.reading
  /\ LET doRead == /\ ~stream.reading
                   /\ \/ stream.buffer = <<>>
                      \/ Len(stream.buffer) - 1 < stream.highWaterMark
         after == IF doRead THEN read([stream EXCEPT !.reading = TRUE], cfg)
                  ELSE stream
         hasChunk == /\ ~after.destroyed /\ after.buffer # <<>>
                     /\ stream.buffer # <<>> \/ ~after.reading
     IN stream' = IF hasChunk
                    THEN [after EXCEPT !.buffer = Tail(@),
                                       !.delivered = Append(@, Head(after.buffer)),
                                       !.flowing = @ /\ cfg.consumer # "pipe"]
                    ELSE after
  /\ out' = stream'.delivered
  /\ UNCHANGED <<input, pos, cfg, assembler, packer, sieve, inject, hist, select, ref>>

\* the consumer (re)enters flowing mode: pipe() or resume() on 'drain'
Resume ==
  /\ ~stream.destroyed
  /\ cfg.consumer # "manual" /\ ~stream.flowing
  /\ stream' = [stream EXCEPT !.flowing = TRUE]
  /\ UNCHANGED <<input, pos, cfg, assembler, packer, sieve, inject, out, hist, select, ref>>

\* the promise of an asynchronous iterator.next() settles:
\* result.then(processChunk).catch(callback)
Settle ==
  /\ ~stream.destroyed /\ stream.awaiting
  /\ LET w == [stream EXCEPT !.awaiting = FALSE]
         id == stream.iterator.id
     IN stream' = IF w.iterator.rest # <<>> /\ Head(w.iterator.rest).t = "throw"
                    THEN failWith(w, id, id)
                    ELSE processChunk(w, FALSE, <<id>>, cfg)
  /\ out' = stream'.delivered
  /\ UNCHANGED <<input, pos, cfg, assembler, packer, sieve, inject, hist, select, ref>>

NextInflation == Write \/ Read \/ Resume \/ Settle

\* the consumer keeps reading and promises settle
SpecInflation ==
  /\ InitInflation /\ [][NextInflation]_vars
  /\ WF_vars(Read) /\ WF_vars(Resume) /\ WF_vars(Settle)

-----------------------------------------------------------------------------
(* pushMany under backpressure, and producers that throw.                  *)

NoThrows == \A i \in 1..Len(input) : \A j \in 1..Len(input[i]) : input[i][j].t # "throw"

\* the chunks producer id yields, as pushed
ChunksOf(id) == [k \in 1..Len(input[id]) |-> [id |-> id, k |-> k]]

Expected == Flatten([id \in 1..Len(input) |-> ChunksOf(id)])

Written(id) == id <= pos

Completed(id) ==
  /\ id <= Len(input)
  /\ \E q \in 1..(Len(out) + 1 - Len(input[id])) :
       SubSeq(out, q, q + Len(input[id]) - 1) = ChunksOf(id)
  /\ \E i \in 1..Len(stream.callbacks) :
       stream.callbacks[i] = [of |-> id, error |-> NoId]

\* the inflating chunks the claim is about, under a high water mark of 1
Inflating(id) ==
  /\ id <= Len(input) /\ Written(id)
  /\ NoThrows /\ cfg.highWaterMark = 1 /\ Len(input[id]) >= 2

\* C7: with highWaterMark = 1, an upstream chunk that inflates to N >= 2
\* chunks through pushMany always completes: its chunks are delivered in
\* order, its transform callback is invoked, and a pushMany waiting for
\* 'flow' is always woken by the next read.
C7_BackpressureSafety ==
  /\ [](NoThrows => IsPrefix(out, Expected))
  /\ [](stream.waiting => (stream.buffer # <<>> /\ ~stream.reading))
  /\ \A id \in 1..MaxWrites : Inflating(id) ~> Completed(id)

\* C7 witness: under highWaterMark = 1 a producer of three chunks waited
\* for 'flow', was resumed and completed, and so did the chunk after it.
C7_Witness ==
  /\ Inflating(1) /\ Len(input[1]) = 3 /\ Len(input) = 2
  /\ cfg.consumer = "manual"
  /\ Completed(1) /\ Completed(2)
  /\ out = Expected
  /\ ~stream.writing

\* C8 as stated: whenever a producer throws or rejects, the callback of its
\* pushMany is invoked with the error, and the error leaves pushMany by no
\* other path.
C8_ProducerErrorsReachCallback ==
  /\ stream.escaped = <<>>
  /\ \A i \in 1..Len(stream.callbacks) :
       stream.callbacks[i].error # NoId
         => stream.callbacks[i].of = stream.callbacks[i].error

-----------------------------------------------------------------------------
(* pushMany's completion callback.                                         *)

\* the invocations of the callback handed to pushMany for upstream chunk id
CallsOf(id) == SelectSeq(stream.callbacks, LAMBDA r : r.of = id)

\* the chunks of producer id pushed so far, read by the consumer or not
PushedOf(id) == SelectSeq(stream.delivered \o stream.buffer, LAMBDA ch : ch.id = id)

OwnThrows(id) == \E j \in 1..Len(input[id]) : input[id][j].t = "throw"

\* the callback of a pushMany whose iterable does not throw was invoked at
\* most once, with no error, and not before every chunk of the iterable
\* was pushed in iteration order
CallbackAfterAllChunks(id) ==
  ~OwnThrows(id) =>
    /\ Len(CallsOf(id)) <= 1
    /\ \A i \in 1..Len(CallsOf(id)) : CallsOf(id)[i].error = NoId
    /\ CallsOf(id) # <<>> => PushedOf(id) = ChunksOf(id)

ManyWrites == 3      \* chunks upstream writes to show a callback called twice

\* upstream writes three chunks, each inflating to at most one chunk; the
\* producer of the last one may throw
InitInflationMany ==
  /\ \E hwm \in HighWaterMarks, consumer \in Consumers,
        producer \in {"sync", "async"}, flowing \in BOOLEAN :
       /\ consumer = "manual" => ~flowing
       /\ input \in [1..ManyWrites -> {Yields(0), Yields(1), <<Throw>>}]
       /\ \A i \in 1..(ManyWrites - 1) : input[i] \in NonThrowing
       /\ cfg = [highWaterMark |-> hwm, consumer |-> consumer,
                 producer |-> producer]
       /\ stream = NewStream(hwm, flowing)
  /\ pos = 0
  /\ out = <<>>
  /\ hist = <<>>
  /\ ref = Nil
  /\ assembler = Nil /\ packer = Nil /\ sieve = Nil /\ inject = Nil /\ select = Nil

SpecInflationMany == InitInflationMany /\ [][NextInflation]_vars

\* C26 as stated: pushMany invokes its completion callback once per call at
\* most, with no error, and only after every chunk of the iterable was
\* pushed in iteration order.
C26_CallbackOnceAfterAllChunks ==
  \A id \in 1..Len(input) : CallbackAfterAllChunks(id)

\* with up to MaxWrites upstream chunks the callback of every pushMany whose
\* producer does not throw is eventually invoked, that of an empty iterable
\* included
C26_CallbackEventually ==
  \A id \in 1..MaxWrites :
    (NoThrows /\ id <= Len(input) /\ Written(id)) ~> (Len(CallsOf(id)) = 1)

\* the consumer's read() will call _read, which emits 'flow'
ReadPulls ==
  /\ ~stream.reading
  /\ stream.buffer = <<>> \/ Len(stream.buffer) - 1 < stream.highWaterMark

\* what the waiting pushMany has still to yield
Remaining == stream.iterator.rest

\* C27: after a push that returned false pushMany pushes no further chunk
\* before the next 'flow' event; when that event fires it goes on with the
\* next chunk of the iteration (pushed at once from a synchronous iterator,
\* asked for from an asynchronous one); no chunk is skipped or repeated.
C27_SuspendedUntilFlow ==
  /\ [](~stream.early)
  /\ [](\A id \in 1..Len(input) : IsPrefix(PushedOf(id), ChunksOf(id)))
  /\ [][\A id \in 1..MaxWrites : (stream.waiting /\ stream.iterator.id = id) =>
          LET n == Len(PushedOf(id))
          IN IF Read /\ ReadPulls
               THEN \/ /\ cfg.producer = "async"
                       /\ stream'.awaiting /\ stream'.iterator = stream.iterator
                       /\ PushedOf(id)' = PushedOf(id)
                    \/ /\ cfg.producer = "sync"
                       /\ \/ Remaining = <<>>
                          \/ Head(Remaining).t = "throw"
                       /\ PushedOf(id)' = PushedOf(id)
                    \/ /\ cfg.producer = "sync"
                       /\ Remaining # <<>> /\ Head(Remaining).t = "chunk"
                       /\ Len(PushedOf(id)') > n
                       /\ PushedOf(id)'[n + 1] = [id |-> id, k |-> Head(Remaining).k]
               ELSE /\ PushedOf(id)' = PushedOf(id)
                    /\ stream'.waiting /\ stream'.iterator = stream.iterator]_vars

\* the transform of upstream chunk id has begun
Transformed(id) ==
  /\ Written(id)
  /\ \A i \in 1..Len(stream.buffered) : stream.buffered[i] # id

\* C39: a stream has at most one pushMany iteration suspended on 'flow' (one
\* registered continuation, and none while an iteration awaits a promise);
\* a 'flow' event resumes it once; and a _read whose 'flow' handler pushed a
\* chunk begins the transform of no further upstream chunk.
C39_OneSuspendedIteration ==
  /\ [](/\ stream.listeners <= 1
        /\ stream.waiting <=> stream.listeners = 1
        /\ ~(stream.waiting /\ stream.awaiting)
        /\ stream.resumed <= 1)
  /\ [][\A id \in 1..ManyWrites :
          (Read /\ ReadPulls /\ stream.waiting /\ stream.iterator.id = id) =>
            /\ Len(PushedOf(id)') <= Len(PushedOf(id)) + 1
            /\ stream'.resumed = 1
            /\ Len(PushedOf(id)') > Len(PushedOf(id)) =>
                 /\ stream'.iterator.id = id
                 /\ \A next \in 1..ManyWrites :
                      Transformed(next)' => Transformed(next)]_vars

\* C39 witness: with two upstream chunks written, the pushMany of the first
\* was suspended and resumed by 'flow' events three times, one chunk each,
\* while the second chunk stayed untransformed in the writable buffer.
C39_Witness ==
  /\ input[1] = Yields(3) /\ Len(input) = 2 /\ cfg.highWaterMark = 1
  /\ cfg.producer = "sync"
  /\ pos = 2 /\ ~Transformed(2)
  /\ stream.waiting /\ stream.listeners = 1 /\ stream.resumed = 1
  /\ PushedOf(1) = ChunksOf(1)
  /\ Len(stream.delivered) = 2

\* C27 witness: under highWaterMark = 1 a producer of three chunks was
\* suspended after its first chunk and has since been resumed twice, one
\* chunk at a time.
C27_Witness ==
  /\ input[1] = Yields(3) /\ cfg.highWaterMark = 1
  /\ stream.iterator = [id |-> 1, rest |-> <<>>]
  /\ stream.waiting /\ stream.refused
  /\ PushedOf(1) = ChunksOf(1)
  /\ Len(stream.delivered) = 2

-----------------------------------------------------------------------------
(* selectEntry: a sparse packEntry chained to a function that keeps the    *)
(* tokens between its own value brackets.                                  *)

NewSelect == [depth |-> 0, discarding |-> TRUE]

\* faulty variant: the delimiters of every array are dropped
selectFilterAnyArray(st, chunk, c) ==
  LET opened ==
        IF chunk.name = "sparseEntryValueStart" /\ chunk.owner = c.ownerSymbol
          THEN [st EXCEPT !.discarding = FALSE] ELSE st
      closed ==
        IF chunk.name = "sparseEntryValueEnd" /\ chunk.owner = c.ownerSymbol
          THEN [opened EXCEPT !.discarding = TRUE] ELSE opened
      depth == updateDepth(closed.depth, chunk)
  IN IF ~closed.discarding /\ ~IsSynthetic(chunk)
       THEN IF c.discardEnclosingArray
              THEN [state |-> [closed EXCEPT !.depth = depth],
                    pushed |-> IF chunk.name \in {"startArray", "endArray"}
                                 THEN <<>> ELSE <<chunk>>]
              ELSE [state |-> closed, pushed |-> <<chunk>>]
       ELSE [state |-> closed, pushed |-> <<>>]

\* faulty variant: the end of the selected value is not noticed
selectFilterLeftOpen(st, chunk, c) ==
  LET opened ==
        IF chunk.name = "sparseEntryValueStart" /\ chunk.owner = c.ownerSymbol
          THEN [st EXCEPT !.discarding = FALSE] ELSE st
      depth == updateDepth(opened.depth, chunk)
  IN IF ~opened.discarding /\ ~IsSynthetic(chunk)
       THEN IF c.discardEnclosingArray
              THEN [state |-> [opened EXCEPT !.depth = depth],
                    pushed |-> IF \/ depth = 1 /\ chunk.name = "startArray"
                                  \/ depth = 0 /\ chunk.name = "endArray"
                                 THEN <<>> ELSE <<chunk>>]
              ELSE [state |-> opened, pushed |-> <<chunk>>]
       ELSE [state |-> opened, pushed |-> <<>>]

\* the chained function: the new closure state and what is forwarded
selectFilter(st, chunk, c) ==
  LET opened ==
        IF chunk.name = "sparseEntryValueStart" /\ chunk.owner = c.ownerSymbol
          THEN [st EXCEPT !.discarding = FALSE] ELSE st
      closed ==
        IF chunk.name = "sparseEntryValueEnd" /\ chunk.owner = c.ownerSymbol
          THEN [opened EXCEPT !.discarding = TRUE] ELSE opened
      depth == updateDepth(closed.depth, chunk)
  IN IF ~closed.discarding /\ ~IsSynthetic(chunk)
       THEN IF c.discardEnclosingArray
              THEN [state |-> [closed EXCEPT !.depth = depth],
                    pushed |-> IF \/ depth = 1 /\ chunk.name = "startArray"
                                  \/ depth = 0 /\ chunk.name = "endArray"
                                 THEN <<>> ELSE <<chunk>>]
              ELSE [state |-> closed, pushed |-> <<chunk>>]
       ELSE [state |-> closed, pushed |-> <<>>]

\* the chunks packEntry pushed for one upstream token, filtered in turn
RECURSIVE selectAll(_, _, _)
selectAll(st, chunks, c) ==
  IF chunks = <<>> THEN [state |-> st, pushed |-> <<>>]
  ELSE LET r == selectFilter(st, Head(chunks), c)
           rest == selectAll(r.state, Tail(chunks), c)
       IN [state |-> rest.state, pushed |-> r.pushed \o rest.pushed]

-----------------------------------------------------------------------------
(* packEntry, omitEntry or selectEntry placed behind another packEntry:    *)
(* their input holds the synthetic tokens of that upstream transformer.    *)

\* everything a packEntry pushes for a token sequence
RECURSIVE packAll(_, _, _)
packAll(pk, chunks, c) ==
  IF chunks = <<>> THEN <<>>
  ELSE LET r == packTransform(pk, Head(chunks), c)
       IN r.pushed \o packAll(r.state, Tail(chunks), c)

OwnerUpstream == "owner-upstream"

ChainedDocs ==
  {VObj(<<Entry(KeyA, VNull), Entry(KeyB, VArr(<<VNull>>))>>),
   VObj(<<Entry(KeyB, VObj(<<Entry(KeyA, VStr(<<"x">>))>>))>>),
   VObj(<<Entry(KeyA, VObj(<<Entry(KeyB, VNull)>>)), Entry(KeyB, VTrue)>>)}

ChainedKeys ==
  {<<StringFilter(KeyA)>>, <<StringFilter(KeyB)>>,
   <<StringFilter(KeyB \o Dot \o KeyA)>>, <<RegExpFilter(KeyB, FALSE, TRUE)>>}

Transformers == {"packEntry", "omitEntry", "selectEntry"}

InitChained ==
  /\ \E doc \in ChainedDocs, f \in FlagSets, upstreamKey \in ChainedKeys,
        upstreamSparse \in BOOLEAN, transformer \in Transformers,
        key \in ChainedKeys, sparseMode \in BOOLEAN, discard \in BOOLEAN :
       LET upstream == [key |-> upstreamKey, pathSeparator |-> Dot,
                        ownerSymbol |-> OwnerUpstream,
                        discardComponentTokens |-> FALSE,
                        sparseMode |-> upstreamSparse]
       IN /\ ~f.streamNumbers /\ f.packNumbers /\ ~f.streamStrings /\ f.packStrings
          /\ transformer = "omitEntry" => (sparseMode /\ discard)
          /\ transformer = "selectEntry" => (sparseMode /\ ~discard)
          /\ cfg = [docs |-> <<doc>>, flags |-> f, upstream |-> upstream,
                    transformer |-> transformer, key |-> key,
                    pathSeparator |-> Dot,
                    ownerSymbol |-> IF transformer = "packEntry" THEN OwnerA
                                    ELSE OwnerOmit,
                    discardComponentTokens |-> discard, sparseMode |-> sparseMode,
                    discardEnclosingArray |-> TRUE]
          /\ input = Indexed(packAll(NewPacker(upstreamSparse),
                                     tokenizeObject(doc, f), upstream))
          /\ packer = NewPacker(sparseMode)
          /\ select = IF transformer = "selectEntry" THEN NewSelect ELSE Nil
  /\ pos = 0
  /\ out = <<>>
  /\ hist = <<>>
  /\ ref = Nil
  /\ assembler = Nil /\ sieve = Nil /\ stream = Nil /\ inject = Nil

\* the transformer handles the next token: its packEntry first, then the
\* function chained to it, if any
ChainedChunk ==
  /\ pos < Len(input)
  /\ \A i \in 1..Len(hist) : hist[i].error = NoError
  /\ LET r == packTransform(packer, input[pos + 1], cfg)
         selected == IF cfg.transformer = "selectEntry"
                       THEN selectAll(select, r.pushed, cfg)
                       ELSE [state |-> select, pushed |-> <<>>]
     IN /\ packer' = r.state
        /\ select' = selected.state
        /\ out' = out \o
             (CASE cfg.transformer = "packEntry" -> r.pushed
                [] cfg.transformer = "omitEntry" ->
                     Flatten([i \in 1..Len(r.pushed) |->
                                omitFilter(r.pushed[i], cfg.ownerSymbol)])
                [] cfg.transformer = "selectEntry" -> selected.pushed)
        /\ hist' = Append(hist, [error |-> r.error,
                                 packingState |-> packer.packingState,
                                 discarding |-> IF cfg.transformer = "selectEntry"
                                                  THEN select.discarding ELSE TRUE])
  /\ pos' = pos + 1
  /\ UNCHANGED <<input, cfg, assembler, sieve, stream, inject, ref>>

NextChained == ChainedChunk

SpecChained == InitChained /\ [][NextChained]_vars

IsForeign(tok) == IsSynthetic(tok) /\ tok.owner # cfg.ownerSymbol

Foreign(toks) ==
  SelectIdx(toks, [i \in 1..Len(toks) |-> IsForeign(toks[i])], 1)

Positioned(toks) ==
  SelectIdx(toks, [i \in 1..Len(toks) |-> "at" \in DOMAIN toks[i]], 1)

\* C12 as stated: no token of the upstream transformer makes this one fail,
\* whatever its internal state; packEntry and omitEntry output every such
\* token unchanged and in its place among the tokens they forward;
\* selectEntry outputs those that arrive inside a selected value.
C12_ForeignSyntheticPassThrough ==
  /\ \A i \in 1..Len(hist) : hist[i].error = NoError
  /\ \A p, q \in 1..Len(Positioned(out)) :
       p < q => Positioned(out)[p].at < Positioned(out)[q].at
  /\ cfg.transformer \in {"packEntry", "omitEntry"} =>
       /\ IsPrefix(Foreign(out), Foreign(input))
       /\ AllConsumed => Foreign(out) = Foreign(input)
  /\ cfg.transformer = "selectEntry" =>
       \A i \in 1..Len(hist) :
         (IsForeign(input[i]) /\ ~hist[i].discarding)
           => \E p \in 1..Len(out) : out[p] = input[i]

-----------------------------------------------------------------------------
(* selectEntry fed the tokens of documents.                                *)

SelectValues ==
  {VNull, VStr(<<"x", "x">>), VObj(<<Entry(KeyA, VNull)>>), VArr(<<>>),
   VArr(<<VNum(12), VArr(<<VNull>>)>>), VArr(<<VObj(<<Entry(KeyA, VNull)>>)>>)}

SelectDocs ==
  {<<VObj(es)>> : es \in EntryLists(SelectValues, MaxElems)}
  \cup {<<VArr(<<VObj(<<Entry(KeyA, v)>>)>>)>> : v \in SelectValues}
  \cup {<<VObj(<<Entry(KeyA, v)>>), VObj(<<Entry(KeyA, VArr(<<VNull>>))>>)>> :
          v \in SelectValues}

SelectKeys ==
  {<<StringFilter(KeyA)>>, <<RegExpFilter(KeyA, FALSE, TRUE)>>,
   <<StringFilter(KeyB), StringFilter(KeyA)>>, <<StringFilter(<<"z">>)>>}

InitSelect ==
  /\ \E docs \in SelectDocs, f \in FlagSets, key \in SelectKeys,
        discardEnclosingArray \in BOOLEAN :
       /\ f.streamNumbers = f.streamStrings /\ f.packNumbers = f.packStrings
       /\ cfg = [docs |-> docs, flags |-> f, transformer |-> "selectEntry",
                 key |-> key, pathSeparator |-> Dot, ownerSymbol |-> OwnerOmit,
                 discardComponentTokens |-> FALSE, sparseMode |-> TRUE,
                 discardEnclosingArray |-> discardEnclosingArray]
       /\ input = Indexed(tokenizeAll(docs, f))
       /\ ref = [roots |-> RootRanges(docs, f, 0)] @@ Reference(docs, f, key, Dot)
  /\ packer = NewPacker(TRUE)
  /\ select = NewSelect
  /\ pos = 0
  /\ out = <<>>
  /\ hist = <<>>
  /\ assembler = Nil /\ sieve = Nil /\ stream = Nil /\ inject = Nil

SpecSelect == InitSelect /\ [][NextChained]_vars

SameRoot(d, e) == \E r \in ref.roots : r.s <= d.ks /\ d.ve <= r.e /\ r.s <= e.ks /\ e.ve <= r.e

\* of every root value, the first in stream order of the entries packEntry
\* matches
FirstSelected ==
  {e \in ref.matched : \A d \in ref.matched : SameRoot(d, e) => e.ks <= d.ks}

SelectFailed == \E i \in 1..Len(hist) : hist[i].error # NoError

\* the output tokens that stem from the value of entry e
SelectedFrom(e) ==
  SelectIdx(out, [q \in 1..Len(out) |->
                    "at" \in DOMAIN out[q] /\ e.vs <= out[q].at /\ out[q].at <= e.ve], 1)

\* C24 as stated: the output holds tokens of the value of the first matching
\* entry (of each root value) and of nothing else: the value of a later
\* matching entry is discarded.
C24_FirstEntryOnly ==
  \A q \in 1..Len(out) :
    \E e \in FirstSelected : e.vs <= out[q].at /\ out[q].at <= e.ve

\* what selectEntry keeps of the value of entry e
Kept(e) ==
  IF cfg.discardEnclosingArray /\ e.value.t = "array"
    THEN SubSeq(input, e.vs + 1, e.ve - 1)
    ELSE SubSeq(input, e.vs, e.ve)

\* C24, amended: the output holds, in stream order, tokens of the values of
\* the matching entries that do not lie inside another matching entry, each
\* token as it came and at most once, and nothing else: no key token, no
\* token outside those values, no synthetic token; once an entry has been
\* handled all that is kept of its value is out.
C24_SelectedValuesOnly ==
  /\ ~SelectFailed
  /\ \A q \in 1..Len(out) :
       /\ "at" \in DOMAIN out[q] /\ out[q] = input[out[q].at]
       /\ \E e \in ref.matched : e.vs <= out[q].at /\ out[q].at <= e.ve
  /\ \A q, q2 \in 1..Len(out) : q < q2 => out[q].at < out[q2].at
  /\ \A e \in ref.matched :
       /\ IsPrefix(SelectedFrom(e), Kept(e))
       /\ pos > e.ve => SelectedFrom(e) = Kept(e)

C24_Witness ==
  /\ AllConsumed
  /\ Cardinality(ref.matched) = 2
  /\ ref.matching # ref.matched
  /\ \A e \in ref.matched : SelectedFrom(e) = Kept(e) /\ Kept(e) # <<>>
  /\ Len(out) < Len(input) - 4

\* C25: with discardEnclosingArray, of a selected array exactly its own
\* startArray and endArray are missing from the output and every token
\* between them, the delimiters of nested arrays included, is output in
\* order; of a selected object or primitive every token is output.
C25_EnclosingArrayRemoved ==
  cfg.discardEnclosingArray =>
    \A e \in ref.matched :
      pos > e.ve =>
        IF e.value.t = "array"
          THEN /\ input[e.vs].name = "startArray" /\ input[e.ve].name = "endArray"
               /\ SelectedFrom(e) = SubSeq(input, e.vs + 1, e.ve - 1)
          ELSE SelectedFrom(e) = SubSeq(input, e.vs, e.ve)

\* C25 witness: an array with an array nested in it was selected and the
\* nested array's delimiters are in the output
C25_Witness ==
  /\ AllConsumed /\ cfg.discardEnclosingArray
  /\ \E e \in ref.matched :
       /\ e.value.t = "array"
       /\ \E i \in 1..Len(e.value.e) : e.value.e[i].t = "array"
       /\ out = SubSeq(input, e.vs + 1, e.ve - 1)
       /\ \E q \in 1..Len(out) : out[q].name = "startArray"
       /\ \E q \in 1..Len(out) : out[q].name = "endArray"

-----------------------------------------------------------------------------
(* injectEntry: passThroughToValueTokenStream, an optional omitEntry and   *)
(* injectionStream chained together.  `queue` holds the tokens written to  *)
(* injectionStream and not yet transformed, `buffer` the tokens it pushed  *)
(* and downstream has not yet taken.                                       *)

QueueLimit == 4     \* tokens that may wait in front of injectionStream

NoStream == 0

NumberText == <<"n", "u", "m", "b", "e", "r">>

InjectTok(tok, id, i) == [inj |-> id, vi |-> i] @@ tok

\* the tokens pushed for the key of the injected entry
injectedKeyTokens(c) ==
  (IF c.streamKeys \/ ~c.packKeys
     THEN <<Tok("startKey"), TokV("stringChunk", c.entry.key), Tok("endKey")>>
     ELSE <<>>)
  \o (IF c.packKeys THEN <<TokV("keyValue", c.entry.key)>> ELSE <<>>)

InjectedKey(c, id) ==
  [i \in 1..Len(injectedKeyTokens(c)) |-> InjectTok(injectedKeyTokens(c)[i], id, 0)]

\* valueTokenStreamFactory(): a Readable of the tokens of the entry's value
valueTokenStreamFactory(c, id) ==
  LET toks == tokenizeObject(c.entry.value, c.flags)
  IN [i \in 1..Len(toks) |-> InjectTok(toks[i], id, i)]

\* the key option handed to the omitEntry stage
autoOmitKey(c) ==
  LET suffix == c.pathSeparator \o c.entry.key
      point == c.entry.injectionPoint
  IN IF c.autoOmitInjectionKeyFilter.defined THEN c.autoOmitInjectionKeyFilter.filter
     ELSE IF ~point.defined THEN RegExpFilter(c.entry.key, TRUE, TRUE)
     ELSE IF ~point.filter.regexp THEN RegExpFilter(point.filter.s \o suffix, FALSE, TRUE)
     ELSE RegExpFilter(point.filter.s \o suffix, point.filter.fromStart, TRUE)

omitConfig(c) ==
  [key |-> <<autoOmitKey(c)>>, pathSeparator |-> c.pathSeparator,
   ownerSymbol |-> OwnerOmit, discardComponentTokens |-> TRUE, sparseMode |-> TRUE]

NewInject(highWaterMark) ==
  [tracker |-> NewTracker,
   waitingForTheEndStack |-> [defined |-> FALSE, stack |-> <<>>],
   valueTokenStream |-> NoStream,      \* the stream the factory returned last
   factoryCalls |-> 0,
   queue |-> <<>>,
   buffer |-> <<>>,
   highWaterMark |-> highWaterMark,
   injecting |-> FALSE,                \* the transform callback is withheld
   chunk |-> Nil,                      \* the endObject held back meanwhile
   local |-> [id |-> NoStream, rest |-> <<>>, paused |-> FALSE],
   onceData |-> FALSE,                 \* this.once('data', ...) is registered
   resumeScheduled |-> FALSE,          \* setImmediate(resume) is pending
   pauses |-> 0,
   error |-> NoError]

\* this.push(chunk) on injectionStream; it returns false at the high water mark
injectPush(inj, chunk) == [inj EXCEPT !.buffer = Append(@, chunk)]

injectPushReturned(inj) == Len(inj.buffer) < inj.highWaterMark

RECURSIVE injectPushAll(_, _)
injectPushAll(inj, chunks) ==
  IF chunks = <<>> THEN inj
  ELSE injectPushAll(injectPush(inj, Head(chunks)), Tail(chunks))

\* stack.toString(): the elements joined by a comma
stackToString(stack) == join(stack, <<",">>)

\* faulty variant: the endObject is forwarded before the key is pushed
beginInjectionForwardingFirst(inj, chunk, c) ==
  LET id == inj.valueTokenStream
      taken == [injectPush(inj, chunk)
                  EXCEPT !.valueTokenStream = NoStream,
                         !.waitingForTheEndStack = [defined |-> FALSE, stack |-> <<>>]]
  IN [injectPushAll(taken, InjectedKey(c, id))
        EXCEPT !.injecting = TRUE, !.chunk = chunk,
               !.local = [id |-> id, rest |-> valueTokenStreamFactory(c, id),
                          paused |-> FALSE]]

\* faulty variant: the reference to the value token stream is kept, so the
\* next root object reads the same stream again
beginInjectionKeepingStream(inj, chunk, c) ==
  IF inj.valueTokenStream = NoStream
    THEN [inj EXCEPT !.error = "assertion"]
    ELSE LET id == inj.valueTokenStream
             taken == [inj EXCEPT !.waitingForTheEndStack =
                                     [defined |-> FALSE, stack |-> <<>>]]
         IN [injectPushAll(taken, InjectedKey(c, id))
               EXCEPT !.injecting = TRUE, !.chunk = chunk,
                      !.local = [id |-> id, rest |-> valueTokenStreamFactory(c, id),
                                 paused |-> FALSE]]

\* the endObject of a root object: the key is pushed, the listeners are
\* attached and the callback is kept until the value token stream ends
beginInjection(inj, chunk, c) ==
  IF inj.valueTokenStream = NoStream
    THEN [inj EXCEPT !.error = "assertion"]
    ELSE LET id == inj.valueTokenStream
             taken == [inj EXCEPT !.valueTokenStream = NoStream,
                                  !.waitingForTheEndStack =
                                     [defined |-> FALSE, stack |-> <<>>]]
         IN [injectPushAll(taken, InjectedKey(c, id))
               EXCEPT !.injecting = TRUE, !.chunk = chunk,
                      !.local = [id |-> id, rest |-> valueTokenStreamFactory(c, id),
                                 paused |-> FALSE]]

\* the else branch: does this chunk open a root object to wait the end of?
lookForRootObject(inj, c) ==
  LET stack == inj.tracker.stack
      parentStack == Front(stack)
      parentStackPath == join(parentStack, c.pathSeparator)
      point == c.entry.injectionPoint
      isEvaluatingAnObjectRoot ==
        Len(stack) >= 1 /\ getHead(inj.tracker) # PKey(NumberText)
      found ==
        /\ isEvaluatingAnObjectRoot
        /\ IF ~point.defined THEN Len(stack) = 1
           ELSE Matches(point.filter, parentStackPath)
  IN IF found
       THEN [inj EXCEPT !.waitingForTheEndStack = [defined |-> TRUE, stack |-> parentStack]]
       ELSE inj

\* injectionStream's transform(chunk, callback)
injectTransform(inj0, chunk, c) ==
  LET inj == [inj0 EXCEPT !.tracker = updateStack(@, chunk)]
      stack == inj.tracker.stack
  IN IF inj.waitingForTheEndStack.defined
       THEN IF /\ chunk.name = "endObject"
               /\ stackToString(inj.waitingForTheEndStack.stack) = stackToString(stack)
              THEN beginInjection(inj, chunk, c)
              ELSE injectPush(inj, chunk)
       ELSE injectPush(lookForRootObject(inj, c), chunk)

\* onData: the chunk is pushed; when push returns false the value token
\* stream is paused until downstream takes a chunk
onData(inj, chunk) ==
  LET pushed == injectPush(inj, chunk)
  IN IF injectPushReturned(pushed) THEN pushed
     ELSE [pushed EXCEPT !.local.paused = TRUE, !.onceData = TRUE,
                         !.pauses = @ + 1]

\* onEnd: the endObject kept back is pushed and the callback is called
onEnd(inj) ==
  [injectPush(inj, inj.chunk) EXCEPT !.injecting = FALSE, !.chunk = Nil]

InjectRoots ==
  {VObj(<<>>),
   VObj(<<Entry(KeyA, VNull)>>),
   VObj(<<Entry(KeyB, VNull), Entry(KeyA, VObj(<<Entry(KeyB, VTrue)>>))>>),
   VObj(<<Entry(KeyA, VObj(<<Entry(KeyA, VObj(<<>>))>>))>>),
   VObj(<<Entry(KeyA, VArr(<<VNull>>)),
          Entry(KeyB, VObj(<<Entry(KeyA, VObj(<<>>))>>))>>),
   VArr(<<VObj(<<Entry(KeyB, VNull)>>)>>),
   VArr(<<VObj(<<>>), VObj(<<>>)>>),
   VObj(<<Entry(<<>>, VObj(<<Entry(KeyB, VNull)>>))>>),
   VObj(<<Entry(KeyB, VObj(<<Entry(KeyB, VNull)>>))>>)}

InjectDocs ==
  {<<r>> : r \in InjectRoots}
  \cup {<<r, VObj(<<>>)>> :
          r \in {VObj(<<>>), VObj(<<Entry(KeyA, VNull)>>),
                 VArr(<<VObj(<<Entry(KeyB, VNull)>>)>>)}}
  \cup {<<VObj(<<>>), VObj(<<>>), VObj(<<>>)>>}

InjectFlags ==
  {f \in FlagSets : /\ ~f.streamNumbers /\ f.packNumbers
                    /\ ~f.streamStrings /\ f.packStrings}

Undefined == [defined |-> FALSE]

Defined(filter) == [defined |-> TRUE, filter |-> filter]

InjectionPoints ==
  {Undefined, Defined(StringFilter(KeyA)), Defined(RegExpFilter(KeyA, FALSE, TRUE)),
   Defined(RegExpFilter(<<"b">>, FALSE, FALSE))}

InjectValues == {VNull, VArr(<<VNull, VNull>>)}

InjectHighWaterMarks == {1, 2}

InitInject ==
  /\ \E docs \in InjectDocs, f \in InjectFlags, point \in InjectionPoints,
        value \in InjectValues, highWaterMark \in InjectHighWaterMarks,
        autoOmit \in BOOLEAN :
       /\ cfg = [docs |-> docs, flags |-> f,
                 entry |-> [injectionPoint |-> point, key |-> KeyB, value |-> value],
                 autoOmitInjectionKey |-> autoOmit,
                 autoOmitInjectionKeyFilter |-> Undefined,
                 streamKeys |-> f.streamKeys, packKeys |-> f.packKeys,
                 pathSeparator |-> Dot]
       /\ input = Indexed(tokenizeAll(docs, f))
       /\ inject = NewInject(highWaterMark)
  /\ packer = NewPacker(TRUE)
  /\ pos = 0
  /\ out = <<>>
  /\ hist = <<>>
  /\ ref = [objects |-> RootObjectSpans(cfg.docs, cfg.flags, 0, 1),
            entries |-> RootSpans(cfg.docs, cfg.flags, 0)]
  /\ assembler = Nil /\ sieve = Nil /\ stream = Nil /\ select = Nil

InjectFailed == inject.error # NoError

\* injectionStream is free to transform the token at the head of its queue
InjectionStreamReady ==
  /\ ~inject.injecting
  /\ Len(inject.buffer) < inject.highWaterMark

\* passThroughToValueTokenStream's transform: the value token stream is made
\* if there is none, the chunk is pushed on and runs through omitEntry; the
\* callback is deferred so that the stages behind handle the chunk first
PassThrough ==
  /\ ~InjectFailed
  /\ pos < Len(input)
  /\ Len(inject.queue) < QueueLimit
  /\ inject.queue = <<>> \/ ~InjectionStreamReady
  /\ LET chunk == input[pos + 1]
         made == IF inject.valueTokenStream = NoStream
                   THEN [inject EXCEPT !.factoryCalls = @ + 1,
                                       !.valueTokenStream = inject.factoryCalls + 1]
                   ELSE inject
         r == IF cfg.autoOmitInjectionKey
                THEN packTransform(packer, chunk, omitConfig(cfg))
                ELSE Result(packer, <<chunk>>, NoError)
         kept == IF cfg.autoOmitInjectionKey
                   THEN Flatten([i \in 1..Len(r.pushed) |->
                                   omitFilter(r.pushed[i], OwnerOmit)])
                   ELSE r.pushed
     IN /\ packer' = r.state
        /\ inject' = [made EXCEPT !.queue = @ \o kept, !.error = r.error]
  /\ pos' = pos + 1
  /\ UNCHANGED <<input, cfg, assembler, sieve, stream, out, hist, select, ref>>

\* injectionStream transforms the next token written to it
InjectChunk ==
  /\ ~InjectFailed
  /\ InjectionStreamReady
  /\ inject.queue # <<>>
  /\ LET chunk == Head(inject.queue)
         next == injectTransform([inject EXCEPT !.queue = Tail(@)], chunk, cfg)
     IN /\ inject' = next
        /\ hist' = Append(hist, [chunk |-> chunk, injected |-> next.injecting,
                                 id |-> next.local.id, error |-> next.error])
  /\ UNCHANGED <<input, pos, cfg, assembler, packer, sieve, stream, out, select, ref>>

\* the value token stream, flowing, emits 'data'
ValueData ==
  /\ ~InjectFailed
  /\ inject.injecting /\ ~inject.local.paused
  /\ inject.local.rest # <<>>
  /\ inject' = onData([inject EXCEPT !.local.rest = Tail(@)], Head(inject.local.rest))
  /\ UNCHANGED <<input, pos, cfg, assembler, packer, sieve, stream, out, hist, select, ref>>

\* the value token stream, drained, emits 'end'
ValueEnd ==
  /\ ~InjectFailed
  /\ inject.injecting /\ ~inject.local.paused
  /\ inject.local.rest = <<>>
  /\ inject' = onEnd(inject)
  /\ UNCHANGED <<input, pos, cfg, assembler, packer, sieve, stream, out, hist, select, ref>>

\* downstream takes a token: injectionStream emits 'data', which fires the
\* listener registered under backpressure
Downstream ==
  /\ ~InjectFailed
  /\ inject.buffer # <<>>
  /\ out' = Append(out, Head(inject.buffer))
  /\ inject' = [inject EXCEPT !.buffer = Tail(@),
                              !.onceData = FALSE,
                              !.resumeScheduled = @ \/ inject.onceData]
  /\ UNCHANGED <<input, pos, cfg, assembler, packer, sieve, stream, hist, select, ref>>

\* setImmediate(() => localValueTokenStream.resume())
ResumeValueStream ==
  /\ ~InjectFailed
  /\ inject.resumeScheduled
  /\ inject' = [inject EXCEPT !.resumeScheduled = FALSE, !.local.paused = FALSE]
  /\ UNCHANGED <<input, pos, cfg, assembler, packer, sieve, stream, out, hist, select, ref>>

NextInject ==
  \/ PassThrough
  \/ InjectChunk
  \/ ValueData
  \/ ValueEnd
  \/ Downstream
  \/ ResumeValueStream

SpecInject == InitInject /\ [][NextInject]_vars

\* everything injectEntry has pushed so far, taken by downstream or not
Emitted == out \o inject.buffer

InjectionInProgress(i) == i = Len(hist) /\ inject.injecting

\* what the i-th token transformed by injectionStream has to have produced by
\* now: itself, or the key, the value tokens and then itself
EmittedFor(i) ==
  LET h == hist[i]
      value == valueTokenStreamFactory(cfg, h.id)
  IN IF h.error # NoError THEN <<>>
     ELSE IF ~h.injected THEN <<h.chunk>>
     ELSE IF InjectionInProgress(i)
       THEN InjectedKey(cfg, h.id)
            \o SubSeq(value, 1, Len(value) - Len(inject.local.rest))
       ELSE InjectedKey(cfg, h.id) \o value \o <<h.chunk>>

\* C4: around every injection the output reads: the upstream tokens before
\* the object's endObject in their order, the injected key, the tokens of
\* the value token stream in their order up to its end, and only then the
\* endObject; no upstream token lies between the key and that endObject,
\* whatever downstream's pace.
C4_InjectionOrder ==
  /\ Emitted = Flatten([i \in 1..Len(hist) |-> EmittedFor(i)])
  /\ \A i \in 1..Len(hist) : hist[i].injected => hist[i].chunk.name = "endObject"
  /\ \A i, j \in 1..Len(hist) : i < j => hist[i].chunk.at < hist[j].chunk.at
  /\ inject.injecting => inject.chunk = hist[Len(hist)].chunk

C4_Witness ==
  /\ inject.pauses >= 2
  /\ ~inject.injecting
  /\ \E i \in 1..Len(hist) :
       /\ hist[i].injected
       /\ i > 1
       /\ Len(valueTokenStreamFactory(cfg, hist[i].id)) > 1
  /\ pos = Len(input) /\ inject.queue = <<>> /\ inject.buffer = <<>>
  /\ out = Flatten([i \in 1..Len(hist) |-> EmittedFor(i)])
  /\ \E q \in 2..Len(out) :
       /\ out[q].name = "endObject" /\ "at" \in DOMAIN out[q]
       /\ "inj" \in DOMAIN out[q - 1]

-----------------------------------------------------------------------------
(* injectEntry: which objects receive the entry.                           *)

\* injectionStream has transformed the endObject of o without failing
Reached(o) ==
  \E i \in 1..Len(hist) : hist[i].chunk.at = o.e /\ hist[i].error = NoError

InjectedInto(o) ==
  \E i \in 1..Len(hist) : hist[i].chunk.at = o.e /\ hist[i].injected

InjectionPointOmitted == ~cfg.entry.injectionPoint.defined

\* the objects of the stream that are root values themselves
RootObjects == {o \in ref.objects : o.path = <<>>}

\* the objects directly inside a root value that is an array
ArrayElementObjects == {o \in ref.objects : o.rootIsArray /\ Len(o.path) = 1}

\* C14 as stated: with injectionPoint omitted an object receives the entry
\* exactly if it is a root value of the stream (depth 0) or sits directly
\* inside an outermost array (depth 1).
C14_EveryRootObjectAsStated ==
  InjectionPointOmitted =>
    \A o \in ref.objects :
      Reached(o) => (InjectedInto(o) <=> o \in RootObjects \cup ArrayElementObjects)

\* the key path of o is equal to, or matched by, the injection point
AtInjectionPoint(o) ==
  /\ cfg.entry.injectionPoint.defined
  /\ Matches(cfg.entry.injectionPoint.filter, join(o.path, cfg.pathSeparator))

InjectionsInto(o) ==
  {i \in 1..Len(hist) : hist[i].chunk.at = o.e /\ hist[i].injected}

\* C15 as stated: every object at the injection point receives the entry
\* exactly once, whether an array at a matching path came before it, whether
\* it lies inside another matching object, whether matching objects came
\* before it.
C15_OneInjectionPerMatch ==
  \A o \in ref.objects :
    (AtInjectionPoint(o) /\ Reached(o)) => Cardinality(InjectionsInto(o)) = 1

\* the entries o itself holds under the injected key
OwnEntriesWithInjectedKey(o) ==
  {e \in ref.entries :
     /\ e.key = cfg.entry.key
     /\ e.path = Append(o.path, PKey(e.key))
     /\ o.s < e.ks /\ e.ve < o.e}

\* the endObject of o has been pushed, whatever came before it
Closed(o) == \E q \in 1..Len(Emitted) : "at" \in DOMAIN Emitted[q] /\ Emitted[q].at = o.e

EmittedFrom(e) ==
  {q \in 1..Len(Emitted) :
     "at" \in DOMAIN Emitted[q] /\ e.ks <= Emitted[q].at /\ Emitted[q].at <= e.ve}

\* C16 as stated: with autoOmitInjectionKey (and no filter of the caller's)
\* an object that received the entry holds the injected key once: no token
\* of an entry it held under that key is output.
C16_InjectedKeyOnce ==
  cfg.autoOmitInjectionKey =>
    \A o \in ref.objects :
      (InjectedInto(o) /\ Closed(o)) =>
        /\ Cardinality(InjectionsInto(o)) = 1
        /\ \A e \in OwnEntriesWithInjectedKey(o) : EmittedFrom(e) = {}

\* upstream has ended and every stage has handled what it was given
StreamDone ==
  /\ pos = Len(input)
  /\ inject.queue = <<>>
  /\ ~inject.injecting

Injections == {i \in 1..Len(hist) : hist[i].injected}

\* C19 as stated: over a whole stream valueTokenStreamFactory is invoked as
\* many times as there are objects that receive an entry, and every stream it
\* returned is read to its end for one injection.
C19_OneFactoryCallPerInjection ==
  (StreamDone /\ ~InjectFailed) =>
    /\ inject.factoryCalls = Cardinality(Injections)
    /\ \A id \in 1..inject.factoryCalls :
         Cardinality({i \in Injections : hist[i].id = id}) = 1

\* C19, amended: valueTokenStreamFactory is invoked for the first upstream
\* chunk and for the first chunk handled after each injection has begun, so
\* the invocations number the injections plus one for a stream that is held
\* and not read yet; no stream is read for more than one injection.
C19_FactoryCallsFollowInjections ==
  ~InjectFailed =>
    /\ inject.factoryCalls =
         Cardinality(Injections) + (IF inject.valueTokenStream = NoStream THEN 0 ELSE 1)
    /\ \A id \in 1..inject.factoryCalls :
         Cardinality({i \in Injections : hist[i].id = id}) <= 1
    /\ \A i \in Injections : hist[i].id \in 1..inject.factoryCalls

C19_Witness ==
  /\ StreamDone /\ ~InjectFailed
  /\ Cardinality(Injections) = 1
  /\ inject.factoryCalls = 2
  /\ inject.valueTokenStream = 2
  /\ out # <<>> /\ inject.buffer = <<>>

-----------------------------------------------------------------------------
(* injectEntry with a writable value token stream: a Duplex whose writable *)
(* side is written every upstream chunk and ended at the root object's     *)
(* endObject, and whose readable side is drained for the entry's value.    *)

BackpressureDeadlock == "backpressure deadlock: value token stream high water mark reached"

\* how the write handler of the value token stream treats its callback
WriteCallbacks == {"sync", "later", "never"}

\* makeSafeCallback(callback_): no call in the library passes options, and
\* suppressExtraneousCalls of `options || {}` is undefined, hence falsy
NoOptions == [suppressExtraneousCalls |-> FALSE]

makeSafeCallback(options) ==
  [calledCallback |-> FALSE,
   suppressExtraneousCalls |-> options.suppressExtraneousCalls,
   reached |-> 0,            \* calls that reached the protected callback
   logged |-> 0]             \* calls reported on the console

\* one call of the wrapper: a call after the first is logged, and it is
\* kept from the protected callback only under suppressExtraneousCalls
safeCallback(sc) ==
  LET logged == IF sc.calledCallback THEN sc.logged + 1 ELSE sc.logged
  IN IF ~sc.calledCallback \/ ~sc.suppressExtraneousCalls
       THEN [sc EXCEPT !.calledCallback = TRUE, !.reached = @ + 1,
                       !.logged = logged]
       ELSE [sc EXCEPT !.logged = logged]

NotAReadable == "value token stream is not a Readable"

NotReadable == "value token stream is not readable"

\* what the factory returns: a Duplex, a Writable without a readable side,
\* or a Readable that has ended already
StreamKinds == {"duplex", "writable", "ended"}

isAWritable(kind) == kind \in {"duplex", "writable"}

\* localValueTokenStream.readable: undefined without a readable side, false
\* once the readable side has ended
readable(kind) == IF kind = "writable" THEN "undefined"
                  ELSE IF kind = "ended" THEN "false" ELSE "true"

\* faulty variant: the two messages are exchanged
unreadableErrorExchanged(kind) ==
  IF readable(kind) = "undefined" THEN NotReadable ELSE NotAReadable

\* the error handed to onEnd when the stream is not readable
unreadableError(kind) ==
  IF readable(kind) = "undefined" THEN NotAReadable ELSE NotReadable

NewDuplex(highWaterMark) ==
  [written |-> <<>>,               \* the chunks its write handler was given
   length |-> 0,                   \* chunks written and not called back yet
   highWaterMark |-> highWaterMark,
   ended |-> FALSE,
   destroyed |-> FALSE,
   refused |-> FALSE]              \* a write() has returned false

\* faulty variant: backpressure is reported one chunk too late
duplexWriteLate(d, chunk, mode) ==
  IF d.ended \/ d.destroyed
    THEN [duplex |-> [d EXCEPT !.refused = TRUE], returned |-> FALSE]
    ELSE LET returned == d.length + 1 <= d.highWaterMark
         IN [duplex |-> [d EXCEPT !.written = Append(@, chunk),
                                  !.length = IF mode = "sync" THEN @ ELSE @ + 1,
                                  !.refused = ~returned],
             returned |-> returned]

\* duplex.write(chunk, encoding, callback): the chunk counts towards the
\* buffer before the return value is taken, the handler runs at once since
\* no other write is under way, and a handler that calls back synchronously
\* releases the chunk before write() returns
duplexWrite(d, chunk, mode) ==
  IF d.ended \/ d.destroyed
    THEN [duplex |-> [d EXCEPT !.refused = TRUE], returned |-> FALSE]
    ELSE LET returned == d.length + 1 < d.highWaterMark
         IN [duplex |-> [d EXCEPT !.written = Append(@, chunk),
                                  !.length = IF mode = "sync" THEN @ ELSE @ + 1,
                                  !.refused = ~returned],
             returned |-> returned]

\* the chunk pushed by passThroughToValueTokenStream, on its way through the
\* optional omitEntry to injectionStream
throughOmit(pk, chunk, c) ==
  LET r == IF c.autoOmitInjectionKey
             THEN packTransform(pk, chunk, omitConfig(c))
             ELSE Result(pk, <<chunk>>, NoError)
  IN IF c.autoOmitInjectionKey
       THEN Result(r.state,
                   Flatten([i \in 1..Len(r.pushed) |-> omitFilter(r.pushed[i], OwnerOmit)]),
                   r.error)
       ELSE r

DuplexDocs ==
  {<<VObj(<<>>)>>,
   <<VObj(<<>>), VObj(<<>>)>>,
   <<VObj(<<>>), VObj(<<>>), VObj(<<>>)>>,
   <<VObj(<<Entry(KeyA, VNull)>>), VObj(<<>>)>>,
   <<VObj(<<Entry(KeyA, VObj(<<>>))>>), VObj(<<>>)>>}

DuplexInjectionPoints == {Undefined, Defined(RegExpFilter(KeyA, FALSE, TRUE))}

DuplexHighWaterMarks == {1, 2}

InitDuplex ==
  /\ \E docs \in DuplexDocs, f \in InjectFlags, point \in DuplexInjectionPoints,
        highWaterMark \in InjectHighWaterMarks,
        writableHighWaterMark \in DuplexHighWaterMarks,
        mode \in WriteCallbacks, autoOmit \in BOOLEAN, kind \in StreamKinds :
       /\ kind = "ended" => (mode = "sync" /\ writableHighWaterMark = 2)
       /\ cfg = [docs |-> docs, flags |-> f,
                 entry |-> [injectionPoint |-> point, key |-> KeyB, value |-> VNull],
                 autoOmitInjectionKey |-> autoOmit,
                 autoOmitInjectionKeyFilter |-> Undefined,
                 streamKeys |-> f.streamKeys, packKeys |-> f.packKeys,
                 pathSeparator |-> Dot,
                 writableHighWaterMark |-> writableHighWaterMark,
                 writeCallback |-> mode,
                 streamKind |-> kind]
       /\ input = Indexed(tokenizeAll(docs, f))
       /\ inject = NewInject(highWaterMark)
  /\ stream = [made |-> <<>>, awaiting |-> FALSE, held |-> Nil,
               safe |-> makeSafeCallback(NoOptions), late |-> FALSE]
  /\ packer = NewPacker(TRUE)
  /\ pos = 0
  /\ out = <<>>
  /\ hist = <<>>
  /\ ref = [objects |-> RootObjectSpans(cfg.docs, cfg.flags, 0, 1),
            entries |-> RootSpans(cfg.docs, cfg.flags, 0)]
  /\ assembler = Nil /\ sieve = Nil /\ select = Nil

\* passThroughToValueTokenStream's transform with a writable value token
\* stream: the stream is made if there is none and the chunk is written to
\* it; advanceToNext, the write's callback, pushes the chunk on and calls
\* safeCallback; a write that returns false destroys the value token stream
\* and fails the transform through safeCallback, and unless the write
\* handler never calls back the write's callback is still to come
DuplexPassThrough ==
  /\ ~InjectFailed
  /\ ~stream.awaiting
  /\ pos < Len(input)
  /\ Len(inject.queue) < QueueLimit
  /\ inject.queue = <<>> \/ ~InjectionStreamReady
  /\ LET chunk == input[pos + 1]
         fresh == inject.valueTokenStream = NoStream
         id == IF fresh THEN inject.factoryCalls + 1 ELSE inject.valueTokenStream
         made == IF fresh THEN Append(stream.made, NewDuplex(cfg.writableHighWaterMark))
                 ELSE stream.made
         w == IF isAWritable(cfg.streamKind)
                THEN duplexWrite(made[id], chunk, cfg.writeCallback)
                ELSE [duplex |-> made[id], returned |-> TRUE]
         advanced == \/ ~isAWritable(cfg.streamKind)
                     \/ /\ cfg.writeCallback = "sync"
                        /\ ~(made[id].ended \/ made[id].destroyed)
         r == IF advanced THEN throughOmit(packer, chunk, cfg)
              ELSE Result(packer, <<>>, NoError)
         error == IF ~w.returned THEN BackpressureDeadlock ELSE r.error
         wrapped == makeSafeCallback(NoOptions)
         late == /\ ~w.returned
                 /\ \/ made[id].ended \/ made[id].destroyed
                    \/ cfg.writeCallback # "never"
     IN /\ packer' = r.state
        /\ inject' = [inject EXCEPT !.factoryCalls = IF fresh THEN @ + 1 ELSE @,
                                    !.valueTokenStream = id,
                                    !.queue = @ \o r.pushed,
                                    !.error = error]
        /\ stream' = [made |-> [made EXCEPT ![id] =
                                  [w.duplex EXCEPT !.destroyed = @ \/ ~w.returned]],
                      awaiting |-> ~advanced /\ w.returned,
                      held |-> IF ~advanced /\ w.returned
                                 THEN [chunk |-> chunk, id |-> id] ELSE Nil,
                      safe |-> IF advanced \/ ~w.returned
                                 THEN safeCallback(wrapped) ELSE wrapped,
                      late |-> late]
  /\ pos' = pos + 1
  /\ UNCHANGED <<input, cfg, assembler, sieve, out, hist, select, ref>>

\* the value token stream calls the write's callback: advanceToNext pushes
\* the chunk on and passThroughToValueTokenStream takes the next one
DuplexWriteDone ==
  /\ ~InjectFailed
  /\ stream.awaiting
  /\ cfg.writeCallback = "later"
  /\ LET r == throughOmit(packer, stream.held.chunk, cfg)
     IN /\ packer' = r.state
        /\ inject' = [inject EXCEPT !.queue = @ \o r.pushed, !.error = r.error]
        /\ stream' = [made |-> [stream.made EXCEPT ![stream.held.id].length = @ - 1],
                      awaiting |-> FALSE,
                      held |-> Nil,
                      safe |-> safeCallback(stream.safe),
                      late |-> FALSE]
  /\ UNCHANGED <<input, pos, cfg, assembler, sieve, out, hist, select, ref>>

\* the callback of a write that returned false comes after all: advanceToNext
\* pushes the chunk into the failed transform and calls safeCallback again
DuplexLateCallback ==
  /\ stream.late
  /\ stream' = [stream EXCEPT !.late = FALSE, !.safe = safeCallback(@)]
  /\ UNCHANGED <<input, pos, cfg, assembler, packer, sieve, inject, out, hist,
                 select, ref>>

\* injectionStream transforms the next token written to it; at the root
\* object's endObject a stream that is not readable ends the injection at
\* once with an error, otherwise the writable side of the stream is ended
DuplexInjectChunk ==
  /\ ~InjectFailed
  /\ InjectionStreamReady
  /\ inject.queue # <<>>
  /\ LET chunk == Head(inject.queue)
         begun == injectTransform([inject EXCEPT !.queue = Tail(@)], chunk, cfg)
         next == IF begun.injecting /\ readable(cfg.streamKind) # "true"
                   THEN [onEnd(begun) EXCEPT !.error = unreadableError(cfg.streamKind)]
                   ELSE begun
     IN /\ inject' = next
        /\ hist' = Append(hist, [chunk |-> chunk, injected |-> begun.injecting,
                                 id |-> begun.local.id, error |-> next.error])
        /\ stream' = IF next.injecting /\ isAWritable(cfg.streamKind)
                       THEN [stream EXCEPT !.made[next.local.id].ended = TRUE]
                       ELSE stream
  /\ UNCHANGED <<input, pos, cfg, assembler, packer, sieve, out, select, ref>>

NextDuplex ==
  \/ DuplexPassThrough
  \/ DuplexWriteDone
  \/ DuplexLateCallback
  \/ DuplexInjectChunk
  \/ ValueData
  \/ ValueEnd
  \/ Downstream
  \/ ResumeValueStream

SpecDuplex == InitDuplex /\ [][NextDuplex]_vars

\* the upstream position of the endObject that ended the injection before
\* the i-th token of hist, 0 when there is none
PreviousInjectionEnd(i) ==
  LET before == {j \in Injections : j < i}
  IN IF before = {} THEN 0
     ELSE hist[CHOOSE j \in before : \A k \in before : k <= j].chunk.at

\* C17 as stated: the value token stream read for an injection was written
\* the upstream tokens after the endObject of the injection before (from the
\* first token when there is none) up to and including the endObject of its
\* own root object, in order and each once.
C17_WrittenSpan ==
  \A i \in Injections :
    isAWritable(cfg.streamKind) =>
      stream.made[hist[i].id].written =
      SubSeq(input, PreviousInjectionEnd(i) + 1, hist[i].chunk.at)

\* C18 as stated: from the endObject of a matched object until the value
\* token stream has ended, no upstream chunk is taken: none is written to a
\* value token stream and none is pushed on.
C18_NoUpstreamChunkWhileInjecting ==
  [][inject.injecting =>
       /\ pos' = pos
       /\ \A id \in 1..Len(stream.made) : stream'.made[id].written = stream.made[id].written
       /\ Len(stream'.made) = Len(stream.made)]_vars

C21_UnreadableStreamErrors ==
  \A i \in Injections :
    /\ readable(cfg.streamKind) = "undefined" => hist[i].error = NotAReadable
    /\ readable(cfg.streamKind) = "false" => hist[i].error = NotReadable
    /\ readable(cfg.streamKind) = "true" => hist[i].error = NoError
    /\ hist[i].error # NoError =>
         /\ i = Len(hist)
         /\ inject.error = hist[i].error
         /\ ~inject.injecting
         /\ hist[i].chunk.name = "endObject"
         /\ Emitted[Len(Emitted)] = hist[i].chunk
         /\ "inj" \in DOMAIN Emitted[Len(Emitted) - 1]

C21_Witness ==
  /\ cfg.streamKind = "writable"
  /\ Injections # {}
  /\ inject.error = NotAReadable
  /\ stream.made[1].written = SubSeq(input, 1, hist[Len(hist)].chunk.at)

C21_WitnessNotReadable ==
  /\ cfg.streamKind = "ended"
  /\ Injections # {}
  /\ inject.error = NotReadable

\* C28 as stated: the callback protected by makeSafeCallback is reached by at
\* most one call per chunk of passThroughToValueTokenStream, a further call
\* of the wrapper is logged only, and a chunk whose transform is over had
\* its callback called exactly once.
C28_ProtectedCallbackOnce ==
  /\ stream.safe.reached <= 1
  /\ (pos > 0 /\ ~stream.awaiting /\ ~stream.late) => stream.safe.reached = 1

-----------------------------------------------------------------------------
(* injectEntry: the value token stream found at the endObject.             *)

AssertionFailed == inject.error = "assertion"

\* the value token stream with this id was written the i-th upstream token
WrittenTo(id, i) ==
  \E w \in 1..Len(stream.made[id].written) : stream.made[id].written[w].at = i

\* the injection recorded at hist[i] read the stream that was written
\* every token of the object it ends
StreamOfSameObject(i) ==
  \E o \in ref.objects :
    /\ o.e = hist[i].chunk.at
    /\ \A k \in o.s..o.e : WrittenTo(hist[i].id, k)

\* C38, first part: whenever injectionStream reaches the endObject of a
\* matched object a value token stream exists, so the assertion holds.
C38_AssertionNeverFails == ~AssertionFailed

\* C38 as stated: in every interleaving of the two stages the assertion at
\* the start of an injection holds, and the stream taken there is the one
\* that was written the tokens of the object being ended.
C38_StreamOfSameObjectExists ==
  /\ ~AssertionFailed
  /\ isAWritable(cfg.streamKind) => \A i \in Injections : StreamOfSameObject(i)

\* the assertion failed at the endObject of the second of two root objects
\* after the first had received its entry
C38_ReachedAssertion ==
  /\ AssertionFailed
  /\ Injections # {}
  /\ inject.factoryCalls = 1

-----------------------------------------------------------------------------
(* injectEntry destroyed from outside: stream.destroy(), or the error of a *)
(* neighbour that tears the pipeline down.                                 *)

Destroyed == "destroyed"

\* the chain is destroyed and with it passThroughToValueTokenStream and
\* injectionStream, which handle no further chunk; injectEntry registers no
\* handler for it, so nothing else changes
DuplexDestroy ==
  /\ ~InjectFailed
  /\ pos > 0
  /\ inject' = [inject EXCEPT !.error = Destroyed]
  /\ UNCHANGED <<input, pos, cfg, assembler, packer, sieve, stream, out, hist,
                 select, ref>>

NextDuplexDestroy == NextDuplex \/ DuplexDestroy

SpecDuplexDestroy == InitDuplex /\ [][NextDuplexDestroy]_vars

\* injectEntry holds a value token stream the factory made
HoldsValueTokenStream == inject.valueTokenStream # NoStream

\* C36 as stated: whenever the injectEntry stream has errored or been
\* destroyed while it holds a current value token stream, that value token
\* stream is destroyed.
C36_ValueTokenStreamDestroyed ==
  (InjectFailed /\ HoldsValueTokenStream) =>
    stream.made[inject.valueTokenStream].destroyed

\* what holds instead: the value token stream is destroyed when the error
\* is the backpressure deadlock, the one case in which injectEntry calls
\* destroy itself.
C36_DestroyedOnDeadlockOnly ==
  (InjectFailed /\ HoldsValueTokenStream) =>
    (stream.made[inject.valueTokenStream].destroyed
       <=> inject.error = BackpressureDeadlock)

\* the stream was destroyed from outside while chunks had been written to a
\* value token stream that is still open
C36_ReachedDestroyedWhileHolding ==
  /\ inject.error = Destroyed /\ HoldsValueTokenStream
  /\ isAWritable(cfg.streamKind)
  /\ stream.made[inject.valueTokenStream].written # <<>>
  /\ ~stream.made[inject.valueTokenStream].destroyed
  /\ ~stream.made[inject.valueTokenStream].ended

-----------------------------------------------------------------------------
(* FullAssembler fed the tokens of one JSON value.                         *)

InitAsm ==
  /\ \E v \in JsonValues, f \in FlagSets, sparseMode \in BOOLEAN :
       /\ cfg = [value |-> v, flags |-> f, sparseMode |-> sparseMode]
       /\ input = tokenizeObject(v, f)
       /\ assembler = NewAssembler(sparseMode)
  /\ pos = 0
  /\ hist = <<>>
  /\ packer = Nil
  /\ out = <<>>
  /\ ref = Nil
  /\ sieve = Nil /\ stream = Nil /\ inject = Nil /\ select = Nil

\* tokens.forEach((token) => assembler.consume(token)), one token per step
Consume ==
  /\ pos < Len(input)
  /\ pos' = pos + 1
  /\ assembler' = consume(assembler, input[pos + 1])
  /\ hist' = Append(hist, [done |-> assembler'.done,
                           depth |-> Len(assembler'.stack)])
  /\ UNCHANGED <<input, cfg, packer, sieve, stream, inject, out, select, ref>>

NextAsm == Consume

SpecAsm == InitAsm /\ [][NextAsm]_vars

-----------------------------------------------------------------------------
(* Sparse mode against the default mode.                                   *)

\* tokens.forEach((token) => assembler.consume(token))
RECURSIVE consumeAll(_, _)
consumeAll(a, toks) ==
  IF toks = <<>> THEN a ELSE consumeAll(consume(a, Head(toks)), Tail(toks))

\* the assembler of the other mode after the same tokens
Twin == consumeAll(NewAssembler(~cfg.sparseMode), SubSeq(input, 1, pos))

SparseAgreesWithDefault ==
  /\ assembler.done = Twin.done
  /\ Len(assembler.stack) = Len(Twin.stack)

\* a streamed key has been opened and not yet closed
AssemblingKey ==
  \E i \in 1..pos :
    /\ input[i].name = "startKey"
    /\ \A j \in (i + 1)..pos : input[j].name # "endKey"

\* nothing but keys is held: `current` and the saved `current`s are the
\* proxy, and characters are collected only while a key is assembled
StoresNoValueData ==
  /\ assembler.current = Proxy
  /\ \A i \in 1..Len(assembler.stack) : assembler.stack[i].current = Proxy
  /\ assembler.assembledString # <<>> => AssemblingKey

\* C13 as stated: after each consumed token the sparse assembler and the
\* default one agree on `done` and on the length of the stack, and the sparse
\* one holds no value data, only keys.
C13_SparseEquivalence ==
  /\ SparseAgreesWithDefault
  /\ cfg.sparseMode => StoresNoValueData

-----------------------------------------------------------------------------
(* Assembly equivalence.                                                   *)

\* the input ends with the packed duplicate of a streamed string or number
LastIsPackedDuplicate ==
  /\ Len(input) >= 2
  /\ \/ Last(input).name = "stringValue" /\ input[Len(input) - 1].name = "endString"
     \/ Last(input).name = "numberValue" /\ input[Len(input) - 1].name = "endNumber"

\* C2: for every JSON value V and every legal choice of flags, once all of
\* V's tokens have been consumed `current` is structurally equal to V
\* (nothing duplicated, nothing lost).
C2_AssemblyEquivalence ==
  (AllConsumed /\ ~cfg.sparseMode) => assembler.current = cfg.value

\* C2 witness: a two-entry object holding a string, with keys and strings
\* both streamed and packed, has been assembled.
C2_Witness ==
  /\ AllConsumed /\ ~cfg.sparseMode
  /\ cfg.flags.streamKeys /\ cfg.flags.packKeys
  /\ cfg.flags.streamStrings /\ cfg.flags.packStrings
  /\ cfg.value.t = "object" /\ Len(cfg.value.e) = 2
  /\ \E i \in 1..2 : cfg.value.e[i].v.t = "string" /\ cfg.value.e[i].v.s # <<>>
  /\ assembler.current = cfg.value

\* C3 as stated: after the first token, `done` is false after every proper
\* prefix of V's tokens and true after the whole sequence.
C3_DoneExactlyAfterLastToken ==
  \A i \in 1..Len(hist) : hist[i].done <=> (i = Len(input))

\* C3, amended: `done` is true after the whole sequence and false after every
\* proper prefix, except that for a root string or number that is streamed and
\* packed it is already true after endString/endNumber, one token before the
\* trailing packed duplicate.
C3_DoneAfterLastValueToken ==
  \A i \in 1..Len(hist) :
    hist[i].done <=>
      \/ i = Len(input)
      \/ i = Len(input) - 1 /\ LastIsPackedDuplicate

\* C3 witness: a streamed-and-packed root primitive has been consumed whole,
\* and `done` was already true before its packed duplicate.
C3_Witness ==
  /\ AllConsumed /\ LastIsPackedDuplicate
  /\ Len(input) >= 4
  /\ hist[Len(input) - 1].done /\ ~hist[Len(input) - 2].done
  /\ assembler.done

-----------------------------------------------------------------------------
(* FullAssembler fed a mixture of streamed and packed tokens.              *)

MixedLeaves == {VStr(<<"x", "x">>), VNum(12), VNull}

\* two values side by side, in an object or in an array
MixedValues ==
  {VObj(<<Entry(KeyA, v), Entry(KeyB, w)>>) : v, w \in MixedLeaves}
  \cup {VArr(<<v, w>>) : v, w \in MixedLeaves}

\* the first child in the forms f selects, the second in the forms g selects
tokenizeMixed(v, f, g) ==
  IF v.t = "object"
    THEN <<Tok("startObject")>>
         \o Primitive("Key", v.e[1].k, f.streamKeys, f.packKeys)
         \o tokenizeObject(v.e[1].v, f)
         \o Primitive("Key", v.e[2].k, g.streamKeys, g.packKeys)
         \o tokenizeObject(v.e[2].v, g)
         \o <<Tok("endObject")>>
    ELSE <<Tok("startArray")>>
         \o tokenizeObject(v.e[1], f) \o tokenizeObject(v.e[2], g)
         \o <<Tok("endArray")>>

InitAsmMixed ==
  /\ \E v \in MixedValues, f \in FlagSets, g \in FlagSets, sparseMode \in BOOLEAN :
       /\ cfg = [value |-> v, flags |-> f, flags2 |-> g, sparseMode |-> sparseMode]
       /\ input = tokenizeMixed(v, f, g)
       /\ assembler = NewAssembler(sparseMode)
  /\ pos = 0
  /\ hist = <<>>
  /\ packer = Nil
  /\ out = <<>>
  /\ ref = Nil
  /\ sieve = Nil /\ stream = Nil /\ inject = Nil /\ select = Nil

SpecAsmMixed == InitAsmMixed /\ [][NextAsm]_vars

\* the packed method a finalizing token stands for
PackedNameOf(name) ==
  CASE name = "endKey" -> "keyValue"
    [] name = "endString" -> "stringValue"
    [] name = "endNumber" -> "numberValue"
    [] OTHER -> "undefined"

\* the next token is a packed primitive whose method call will be skipped
NextIsSkipped ==
  /\ pos < Len(input)
  /\ input[pos + 1].name \in {"keyValue", "stringValue", "numberValue"}
  /\ assembler.previouslyAssembledStreamedToken = input[pos + 1].name

\* the next token is a packed primitive right after its finalizing token
NextFollowsItsEnd ==
  /\ 0 < pos /\ pos < Len(input)
  /\ input[pos + 1].name \in {"keyValue", "stringValue", "numberValue"}
  /\ PackedNameOf(input[pos].name) = input[pos + 1].name

\* a streamed-only element is followed at once by a packed-only element of
\* its kind: the tokens read like one element both streamed and packed
PackedFollowsForeignEnd ==
  /\ cfg.value.t = "array"
  /\ LET first == tokenizeObject(cfg.value.e[1], cfg.flags)
         second == tokenizeObject(cfg.value.e[2], cfg.flags2)
     IN /\ PackedNameOf(Last(first).name) # "undefined"
        /\ PackedNameOf(Last(first).name) = Head(second).name

\* C33: a packed keyValue/stringValue/numberValue is skipped if and only
\* if the token consumed immediately before it was the corresponding
\* endKey/endString/endNumber; after every other token the marker is
\* clear, and, where no packed-only primitive comes right after the end of
\* a streamed-only one, what has been assembled in the end is the value.
C33_SkipIffJustFinalized ==
  /\ NextIsSkipped <=> NextFollowsItsEnd
  /\ assembler.previouslyAssembledStreamedToken =
       (IF pos = 0 THEN "undefined" ELSE PackedNameOf(input[pos].name))
  /\ (AllConsumed /\ ~cfg.sparseMode /\ ~PackedFollowsForeignEnd)
       => assembler.current = cfg.value

\* C33 witness: a string was streamed and packed, its duplicate skipped,
\* and the packed-only string after it, following another token, assembled.
C33_Witness ==
  /\ AllConsumed /\ ~cfg.sparseMode
  /\ cfg.flags.streamStrings /\ cfg.flags.packStrings
  /\ ~cfg.flags2.streamStrings /\ cfg.flags2.packStrings
  /\ cfg.value = VArr(<<VStr(<<"x", "x">>), VStr(<<"x", "x">>)>>)
  /\ assembler.current = cfg.value

=============================================================================
